---------------------------- MODULE Spec2Model ----------------------------
(***************************************************************************)
(* A model of glypto-go's provider resolution and scraping engine:        *)
(* the metadata providers, the provider registry, the Metadata result,    *)
(* the provider loader / scraper factory and the scraper's DOM passes.    *)
(*                                                                         *)
(* Strings are sequences of tokens, so that strings.HasPrefix,            *)
(* strings.TrimPrefix and strings.TrimSpace are computed and not assumed: *)
(* "og:title" is <<"og:", "title">>, "" is <<>>, " Hi " is                *)
(* <<" ", "Hi", " ">>.  A nil pointer / nil interface is Nil.             *)
(***************************************************************************)
EXTENDS Integers, Sequences, FiniteSets, TLC

VARIABLES
    providers,      \* ProviderRegistry.providers
    providerData,   \* Metadata.providerData
    registry,       \* Metadata.registry: TheRegistry (the one registry of the model) or NoRegistry
    Feeds,          \* Metadata.Feeds
    doc,            \* Scraper.doc: Nil or Some(root node)
    result,         \* Scraper.result: Nil or Some(TheMetadata), the Metadata above
    call,           \* the last operation called, with its arguments
    ret             \* what that operation returned

vars == <<providers, providerData, registry, Feeds, doc, result, call, ret>>

\* A pointer (or interface value) is Nil or Some(x); x is Val(pointer).
Nil == <<>>
Some(x) == <<x>>
Val(ptr) == ptr[1]
NoRegistry == "nil"
TheRegistry == "registry"
TheMetadata == "metadata"

-----------------------------------------------------------------------------
(* Bounds of the model.                                                    *)

MaxProviders == 3
MaxChildren == 2
MaxData == 2
MaxNames == 3
MaxElements == 3

-----------------------------------------------------------------------------
(* Strings.                                                                *)

S(t) == <<t>>
EmptyString == <<>>

OGPrefix == <<"og:">>
TwitterPrefix == <<"twitter:">>

HasPrefix(s, prefix) ==
    /\ Len(s) >= Len(prefix)
    /\ SubSeq(s, 1, Len(prefix)) = prefix

TrimPrefix(s, prefix) ==
    IF HasPrefix(s, prefix) THEN SubSeq(s, Len(prefix) + 1, Len(s)) ELSE s

IsSpace(t) == t = " "

RECURSIVE TrimLeft(_)
TrimLeft(s) ==
    IF s # <<>> /\ IsSpace(Head(s)) THEN TrimLeft(Tail(s)) ELSE s

RECURSIVE TrimRight(_)
TrimRight(s) ==
    IF s # <<>> /\ IsSpace(s[Len(s)]) THEN TrimRight(SubSeq(s, 1, Len(s) - 1)) ELSE s

TrimSpace(s) == TrimRight(TrimLeft(s))

-----------------------------------------------------------------------------
(* html.Node: Type, Data, Attr (a list of Key/Val pairs) and the children *)
(* in FirstChild/NextSibling order.                                        *)

ElementNode == "ElementNode"
TextNode == "TextNode"

Attribute(k, v) == [Key |-> k, Val |-> v]
Element(tag, attrs, kids) == [Type |-> ElementNode, Data |-> tag, Attr |-> attrs, children |-> kids]
Text(s) == [Type |-> TextNode, Data |-> s, Attr |-> <<>>, children |-> <<>>]

RECURSIVE AttrLookup(_, _, _)
AttrLookup(attrs, key, i) ==
    IF i > Len(attrs) THEN EmptyString
    ELSE IF attrs[i].Key = key THEN attrs[i].Val
    ELSE AttrLookup(attrs, key, i + 1)

\* BaseProvider.getAttribute / Scraper.getAttribute: the first attribute with the key, else "".
getAttribute(n, key) == AttrLookup(n.Attr, key, 1)

\* Scraper.hasAttribute
hasAttribute(n, key) == \E i \in 1..Len(n.Attr) : n.Attr[i].Key = key

RECURSIVE getTextContent(_)
RECURSIVE ConcatText(_, _)
ConcatText(kids, i) ==
    IF i > Len(kids) THEN <<>>
    ELSE getTextContent(kids[i]) \o ConcatText(kids, i + 1)

\* BaseProvider.getTextContent
getTextContent(n) ==
    IF n.Type = TextNode THEN n.Data
    ELSE TrimSpace(ConcatText(n.children, 1))

-----------------------------------------------------------------------------
(* Providers.  A provider value is [name, priority, kind]; kind selects   *)
(* the implementation of CanHandle / Scrape.                               *)

ScrapedData(k, v) == [Key |-> k, Value |-> v]

\* BaseProvider.GetValue (and the tests' MockProvider.GetValue): data is a
\* function from the keys present to their value lists.
GetValue(key, data) ==
    IF key \in DOMAIN data /\ Len(data[key]) > 0 THEN Some(data[key][1]) ELSE Nil

\* A scrapeMetaTag that leaves the prefix on the key.
scrapeMetaTag_KeepPrefix(node, prefixToRemove) ==
    LET p0 == getAttribute(node, S("property"))
        property == IF p0 = EmptyString THEN getAttribute(node, S("name")) ELSE p0
        content == getAttribute(node, S("content"))
    IN  IF property = EmptyString \/ content = EmptyString THEN Nil
        ELSE Some(ScrapedData(property, content))

\* A scrapeMetaTag that does not ask for content.
scrapeMetaTag_AnyContent(node, prefixToRemove) ==
    LET p0 == getAttribute(node, S("property"))
        property == IF p0 = EmptyString THEN getAttribute(node, S("name")) ELSE p0
        content == getAttribute(node, S("content"))
    IN  IF property = EmptyString THEN Nil
        ELSE Some(ScrapedData(TrimPrefix(property, prefixToRemove), content))

\* BaseProvider.scrapeMetaTag
scrapeMetaTag(node, prefixToRemove) ==
    LET p0 == getAttribute(node, S("property"))
        property == IF p0 = EmptyString THEN getAttribute(node, S("name")) ELSE p0
        content == getAttribute(node, S("content"))
    IN  IF property = EmptyString \/ content = EmptyString THEN Nil
        ELSE Some(ScrapedData(TrimPrefix(property, prefixToRemove), content))

OpenGraphProvider == [name |-> "openGraph", priority |-> 1, kind |-> "OpenGraph"]
TwitterProvider == [name |-> "twitter", priority |-> 2, kind |-> "Twitter"]
StandardMetaProvider == [name |-> "meta", priority |-> 3, kind |-> "StandardMeta"]
OtherElementsProvider == [name |-> "other", priority |-> 4, kind |-> "OtherElements"]
\* The registry tests' provider: handles every <meta>, always scrapes test=value.
MockProvider(n, p) == [name |-> n, priority |-> p, kind |-> "Mock"]

OpenGraphProvider_CanHandle(node) ==
    IF node.Type # ElementNode \/ node.Data # "meta" THEN FALSE
    ELSE \/ HasPrefix(getAttribute(node, S("property")), OGPrefix)
         \/ HasPrefix(getAttribute(node, S("name")), OGPrefix)

\* An OpenGraph.Scrape that does not ask CanHandle first.
OpenGraphProvider_Scrape_Unguarded(node) == scrapeMetaTag(node, OGPrefix)

OpenGraphProvider_Scrape(node) ==
    IF ~OpenGraphProvider_CanHandle(node) THEN Nil
    ELSE scrapeMetaTag(node, OGPrefix)

TwitterProvider_CanHandle(node) ==
    IF node.Type # ElementNode \/ node.Data # "meta" THEN FALSE
    ELSE \/ HasPrefix(getAttribute(node, S("property")), TwitterPrefix)
         \/ HasPrefix(getAttribute(node, S("name")), TwitterPrefix)

TwitterProvider_Scrape(node) ==
    IF ~TwitterProvider_CanHandle(node) THEN Nil
    ELSE scrapeMetaTag(node, TwitterPrefix)

\* A StandardMeta.CanHandle that looks for the prefixes in name only.
StandardMetaProvider_CanHandle_NameOnly(node) ==
    IF node.Type # ElementNode \/ node.Data # "meta" THEN FALSE
    ELSE LET name == getAttribute(node, S("name"))
             property == getAttribute(node, S("property"))
         IN  /\ (name # EmptyString \/ property # EmptyString)
             /\ ~HasPrefix(name, OGPrefix)
             /\ ~HasPrefix(name, TwitterPrefix)

StandardMetaProvider_CanHandle(node) ==
    IF node.Type # ElementNode \/ node.Data # "meta" THEN FALSE
    ELSE LET name == getAttribute(node, S("name"))
             property == getAttribute(node, S("property"))
         IN  /\ (name # EmptyString \/ property # EmptyString)
             /\ ~HasPrefix(name, OGPrefix)
             /\ ~HasPrefix(name, TwitterPrefix)
             /\ ~HasPrefix(property, OGPrefix)
             /\ ~HasPrefix(property, TwitterPrefix)

StandardMetaProvider_Scrape(node) ==
    IF ~StandardMetaProvider_CanHandle(node) THEN Nil
    ELSE scrapeMetaTag(node, EmptyString)

\* An OtherElements.CanHandle that takes every link with a rel.
OtherElementsProvider_CanHandle_AnyRel(node) ==
    IF node.Type # ElementNode THEN FALSE
    ELSE IF node.Data \in {"title", "h1"} THEN TRUE
    ELSE IF node.Data = "link" THEN getAttribute(node, S("rel")) # EmptyString
    ELSE FALSE

OtherElementsProvider_CanHandle(node) ==
    IF node.Type # ElementNode THEN FALSE
    ELSE IF node.Data \in {"title", "h1"} THEN TRUE
    ELSE IF node.Data = "link" THEN
        LET rel == getAttribute(node, S("rel"))
        IN  rel = S("icon") \/ rel = S("shortcut icon") \/ rel = S("canonical")
    ELSE FALSE

\* An OtherElements.Scrape that keys a canonical link by its rel.
OtherElementsProvider_Scrape_RelKey(node) ==
    IF ~OtherElementsProvider_CanHandle(node) THEN Nil
    ELSE IF node.Data = "title" THEN
        LET content == getTextContent(node)
        IN  IF content # EmptyString THEN Some(ScrapedData(S("title"), content)) ELSE Nil
    ELSE IF node.Data = "h1" THEN
        LET content == getTextContent(node)
        IN  IF content # EmptyString THEN Some(ScrapedData(S("firstHeading"), content)) ELSE Nil
    ELSE IF node.Data = "link" THEN
        LET rel == getAttribute(node, S("rel"))
            href == getAttribute(node, S("href"))
        IN  IF rel # EmptyString /\ href # EmptyString THEN Some(ScrapedData(rel, href)) ELSE Nil
    ELSE Nil

OtherElementsProvider_Scrape(node) ==
    IF ~OtherElementsProvider_CanHandle(node) THEN Nil
    ELSE IF node.Data = "title" THEN
        LET content == getTextContent(node)
        IN  IF content # EmptyString THEN Some(ScrapedData(S("title"), content)) ELSE Nil
    ELSE IF node.Data = "h1" THEN
        LET content == getTextContent(node)
        IN  IF content # EmptyString THEN Some(ScrapedData(S("firstHeading"), content)) ELSE Nil
    ELSE IF node.Data = "link" THEN
        LET rel == getAttribute(node, S("rel"))
            href == getAttribute(node, S("href"))
        IN  IF rel # EmptyString /\ href # EmptyString THEN
                IF rel \in {S("icon"), S("shortcut icon")} THEN Some(ScrapedData(rel, href))
                ELSE IF rel = S("canonical") THEN Some(ScrapedData(S("url"), href))
                ELSE Nil
            ELSE Nil
    ELSE Nil

MockProvider_CanHandle(node) == node.Type = ElementNode /\ node.Data = "meta"

MockProvider_Scrape(node) == Some(ScrapedData(S("test"), S("value")))

\* The MockProvider of the scraper tests: it handles the elements of one tag.
ScraperMockProvider(n, p, element) ==
    [name |-> n, priority |-> p, kind |-> "ScraperMock", element |-> element]

ScraperMockProvider_CanHandle(m, node) == node.Type = ElementNode /\ node.Data = m.element

ScraperMockProvider_Scrape(m, node) ==
    IF ~ScraperMockProvider_CanHandle(m, node) THEN Nil
    ELSE
    CASE m.element = "meta" ->
            IF getAttribute(node, S("content")) # EmptyString
            THEN Some(ScrapedData(S("test"), getAttribute(node, S("content"))))
            ELSE Nil
      [] m.element = "title" ->
            IF node.children # <<>> /\ node.children[1].Type = TextNode
            THEN Some(ScrapedData(S("title"), node.children[1].Data))
            ELSE Nil
      [] OTHER -> Nil

\* Dispatch of the MetadataProvider interface.
CanHandle(p, node) ==
    CASE p.kind = "OpenGraph" -> OpenGraphProvider_CanHandle(node)
      [] p.kind = "Twitter" -> TwitterProvider_CanHandle(node)
      [] p.kind = "StandardMeta" -> StandardMetaProvider_CanHandle(node)
      [] p.kind = "OtherElements" -> OtherElementsProvider_CanHandle(node)
      [] p.kind = "Mock" -> MockProvider_CanHandle(node)
      [] p.kind = "ScraperMock" -> ScraperMockProvider_CanHandle(p, node)

Scrape(p, node) ==
    CASE p.kind = "OpenGraph" -> OpenGraphProvider_Scrape(node)
      [] p.kind = "Twitter" -> TwitterProvider_Scrape(node)
      [] p.kind = "StandardMeta" -> StandardMetaProvider_Scrape(node)
      [] p.kind = "OtherElements" -> OtherElementsProvider_Scrape(node)
      [] p.kind = "Mock" -> MockProvider_Scrape(node)
      [] p.kind = "ScraperMock" -> ScraperMockProvider_Scrape(p, node)

-----------------------------------------------------------------------------
(* sort.Slice with the less function of NewRegistry / AddProvider.  Go's   *)
(* sort.Slice is documented as not stable; its implementation (pdqsort)    *)
(* runs a plain insertion sort on slices of at most 12 elements and        *)
(* partitions longer ones around a pivot, which can reorder equal          *)
(* elements.  SortSlice is the set of results the call can return: the     *)
(* insertion sort's for a short slice, any ordering sorted by priority     *)
(* for a longer one.                                                       *)

MaxInsertion == 12

Less(a, b) == a.priority < b.priority

Swap(d, i, j) == [d EXCEPT ![i] = d[j], ![j] = d[i]]

RECURSIVE BubbleDown(_, _)
BubbleDown(d, j) ==
    IF j > 1 /\ Less(d[j], d[j - 1]) THEN BubbleDown(Swap(d, j, j - 1), j - 1) ELSE d

RECURSIVE InsertionPass(_, _)
InsertionPass(d, i) ==
    IF i > Len(d) THEN d ELSE InsertionPass(BubbleDown(d, i), i + 1)

InsertionSort(d) == InsertionPass(d, 2)

RemoveAt(s, i) == SubSeq(s, 1, i - 1) \o SubSeq(s, i + 1, Len(s))

RECURSIVE Orderings(_)
Orderings(s) ==
    IF s = <<>> THEN {<<>>}
    ELSE UNION {{<<s[i]>> \o q : q \in Orderings(RemoveAt(s, i))} : i \in 1..Len(s)}

\* Length of the leading run of elements that compare equal to the first.
RECURSIVE RunLength(_, _)
RunLength(s, i) ==
    IF i <= Len(s) /\ ~Less(s[1], s[i]) THEN RunLength(s, i + 1) ELSE i - 1

\* Every ordering of a sorted sequence that is still sorted.
RECURSIVE SortedArrangements(_)
SortedArrangements(s) ==
    IF s = <<>> THEN {<<>>}
    ELSE LET k == RunLength(s, 1)
         IN  {q \o r : q \in Orderings(SubSeq(s, 1, k)),
                       r \in SortedArrangements(SubSeq(s, k + 1, Len(s)))}

SortSlice_Unsorted(d) == {d}

SortSlice(d) ==
    IF Len(d) <= MaxInsertion THEN {InsertionSort(d)}
    ELSE SortedArrangements(InsertionSort(d))

-----------------------------------------------------------------------------
(* ProviderRegistry.                                                       *)

\* NewRegistry: the results it can return, each with the caller's slice as
\* the call leaves it (the sort runs on a copy).
NewRegistry(list) ==
    {[providers |-> sorted, caller |-> list] : sorted \in SortSlice(list)}

ScrapingResult(p, d) == [Provider |-> p, Data |-> d]

\* The policy of stopping at the first provider whose CanHandle is true.
RECURSIVE FirstCapableLoop(_, _, _)
FirstCapableLoop(ps, node, i) ==
    IF i > Len(ps) THEN Nil
    ELSE IF CanHandle(ps[i], node) THEN
        (IF Scrape(ps[i], node) # Nil
         THEN Some(ScrapingResult(ps[i], Val(Scrape(ps[i], node)))) ELSE Nil)
    ELSE FirstCapableLoop(ps, node, i + 1)

ScrapeFromElement_FirstCapable(ps, node) == FirstCapableLoop(ps, node, 1)

RECURSIVE ScrapeFromElementLoop(_, _, _)
ScrapeFromElementLoop(ps, node, i) ==
    IF i > Len(ps) THEN Nil
    ELSE IF CanHandle(ps[i], node) /\ Scrape(ps[i], node) # Nil
         THEN Some(ScrapingResult(ps[i], Val(Scrape(ps[i], node))))
    ELSE ScrapeFromElementLoop(ps, node, i + 1)

\* ProviderRegistry.ScrapeFromElement
ScrapeFromElement(ps, node) == ScrapeFromElementLoop(ps, node, 1)

RECURSIVE LastFirstLoop(_, _, _, _)
LastFirstLoop(ps, key, pd, i) ==
    IF i < 1 THEN Nil
    ELSE IF ps[i].name \in DOMAIN pd /\ GetValue(key, pd[ps[i].name]) # Nil
         THEN GetValue(key, pd[ps[i].name])
    ELSE LastFirstLoop(ps, key, pd, i - 1)

ResolveValue_LastFirst(ps, key, pd) == LastFirstLoop(ps, key, pd, Len(ps))

RECURSIVE ResolveValueLoop(_, _, _, _)
ResolveValueLoop(ps, key, pd, i) ==
    IF i > Len(ps) THEN Nil
    ELSE IF ps[i].name \in DOMAIN pd /\ GetValue(key, pd[ps[i].name]) # Nil
         THEN GetValue(key, pd[ps[i].name])
    ELSE ResolveValueLoop(ps, key, pd, i + 1)

\* ProviderRegistry.ResolveValue: pd is a function from the names that have a
\* partition to the partitions.
ResolveValue(ps, key, pd) == ResolveValueLoop(ps, key, pd, 1)

\* ProviderRegistry.AddProvider: the provider lists it can leave.
AddProvider(ps, p) == SortSlice(Append(ps, p))

RECURSIVE RemoveProviderLoop(_, _, _)
RemoveProviderLoop(ps, name, i) ==
    IF i > Len(ps) THEN ps
    ELSE IF ps[i].name = name THEN RemoveAt(ps, i)
    ELSE RemoveProviderLoop(ps, name, i + 1)

\* A RemoveProvider that removes every provider of the name.
RemoveProvider_All(ps, name) == SelectSeq(ps, LAMBDA p : p.name # name)

\* ProviderRegistry.RemoveProvider
RemoveProvider(ps, name) == RemoveProviderLoop(ps, name, 1)

RECURSIVE GetProviderLoop(_, _, _)
GetProviderLoop(ps, name, i) ==
    IF i > Len(ps) THEN Nil
    ELSE IF ps[i].name = name THEN Some(ps[i])
    ELSE GetProviderLoop(ps, name, i + 1)

\* ProviderRegistry.GetProvider
GetProvider(ps, name) == GetProviderLoop(ps, name, 1)

-----------------------------------------------------------------------------
(* Inputs the operations are called with.                                  *)

A == S("A")
B == S("B")

EmptyMap == [k \in {} |-> <<>>]

\* The providers registries are built from: the four built-ins and the
\* registry tests' mock at a priority that ties with a built-in.
ProviderPool ==
    {OpenGraphProvider, TwitterProvider, StandardMetaProvider, OtherElementsProvider,
     MockProvider("provider3", 2), MockProvider("twitter", 3)}

RECURSIVE SeqsOfLen(_, _)
SeqsOfLen(set, n) ==
    IF n = 0 THEN {<<>>}
    ELSE {Append(q, x) : q \in SeqsOfLen(set, n - 1), x \in set}

SeqsUpTo(set, n) == UNION {SeqsOfLen(set, k) : k \in 0..n}

\* A list one longer than sort.Slice's insertion-sort threshold, with one
\* pair of equal priorities: priorities 1,2,3,4,5,6,1,7,...,12.
LongNames == <<"p1", "p2", "p3", "p4", "p5", "p6", "p7", "p8", "p9", "p10", "p11", "p12", "p13">>
LongList ==
    [i \in 1..(MaxInsertion + 1) |->
        MockProvider(LongNames[i], IF i < 7 THEN i ELSE IF i = 7 THEN 1 ELSE i - 1)]

ProviderLists == SeqsUpTo(ProviderPool, MaxProviders) \cup {LongList}

ProviderNames == {p.name : p \in ProviderPool} \cup {"nonexistent"}

MetaNode(attrs) == Element("meta", attrs, <<>>)
LinkNode(attrs) == Element("link", attrs, <<>>)

NodeSamples ==
    {MetaNode(<<Attribute(S("property"), <<"og:", "title">>), Attribute(S("content"), S("Hello"))>>),
     MetaNode(<<Attribute(S("property"), <<"og:", "title">>)>>),
     MetaNode(<<Attribute(S("name"), <<"twitter:", "card">>), Attribute(S("content"), S("summary"))>>),
     MetaNode(<<Attribute(S("property"), S("article")), Attribute(S("name"), <<"og:", "type">>),
                Attribute(S("content"), S("x"))>>),
     MetaNode(<<Attribute(S("name"), S("description")), Attribute(S("content"), S("D"))>>),
     MetaNode(<<Attribute(S("name"), S("description"))>>),
     MetaNode(<<>>),
     Element("title", <<>>, <<Text(S("T"))>>),
     Element("h1", <<>>, <<>>),
     LinkNode(<<Attribute(S("rel"), S("icon")), Attribute(S("href"), S("/i.png"))>>),
     LinkNode(<<Attribute(S("rel"), S("alternate")), Attribute(S("href"), S("/f.xml"))>>),
     Element("div", <<>>, <<>>),
     Text(S("T"))}

PartitionSamples ==
    {EmptyMap,
     S("title") :> <<>>,
     S("title") :> <<A>>,
     S("title") :> <<B>>,
     (S("title") :> <<B, A>>) @@ (S("description") :> <<A>>)}

PartitionNames == {"openGraph", "twitter"}

ProviderDataSamples == UNION {[N -> PartitionSamples] : N \in SUBSET PartitionNames}

KeySamples == {S("title"), S("description")}

-----------------------------------------------------------------------------
(* The registry: construction (Init), its mutations and its two queries.   *)

NoMetadata ==
    /\ providerData = EmptyMap
    /\ registry = NoRegistry
    /\ Feeds = <<>>
    /\ doc = Nil
    /\ result = Nil

InitRegistry ==
    /\ \E list \in ProviderLists : \E r \in NewRegistry(list) :
        /\ providers = r.providers
        /\ call = [op |-> "NewRegistry", list |-> list, caller |-> r.caller]
    /\ ret = Nil
    /\ NoMetadata

DoAddProvider(p) ==
    /\ Len(providers) < MaxProviders
    /\ providers' \in AddProvider(providers, p)
    /\ call' = [op |-> "AddProvider", provider |-> p, before |-> providers]
    /\ ret' = Nil
    /\ UNCHANGED <<providerData, registry, Feeds, doc, result>>

DoRemoveProvider(name) ==
    /\ providers' = RemoveProvider(providers, name)
    /\ call' = [op |-> "RemoveProvider", name |-> name, before |-> providers]
    /\ ret' = Nil
    /\ UNCHANGED <<providerData, registry, Feeds, doc, result>>

DoScrapeFromElement(node) ==
    /\ ret' = ScrapeFromElement(providers, node)
    /\ call' = [op |-> "ScrapeFromElement", node |-> node]
    /\ UNCHANGED <<providers, providerData, registry, Feeds, doc, result>>

DoResolveValue(key, pd) ==
    /\ ret' = ResolveValue(providers, key, pd)
    /\ call' = [op |-> "ResolveValue", key |-> key, providerData |-> pd]
    /\ UNCHANGED <<providers, providerData, registry, Feeds, doc, result>>

NextRegistry ==
    \/ \E p \in ProviderPool : DoAddProvider(p)
    \/ \E name \in ProviderNames : DoRemoveProvider(name)
    \/ \E node \in NodeSamples : DoScrapeFromElement(node)
    \/ \E key \in KeySamples, pd \in ProviderDataSamples : DoResolveValue(key, pd)

SpecRegistry == InitRegistry /\ [][NextRegistry]_vars

-----------------------------------------------------------------------------
(* Properties of the registry, checked under SpecRegistry.                 *)

Min(set) == CHOOSE x \in set : \A y \in set : x <= y

\* Positions of the providers able to handle the node / able to scrape it.
Capable(node) == {i \in 1..Len(providers) : CanHandle(providers[i], node)}
Yielding(node) == {i \in Capable(node) : Scrape(providers[i], node) # Nil}

\* C1 (as stated): when the highest-priority provider whose CanHandle(node)
\* is true scrapes nothing, ScrapeFromElement(node) returns nothing.
C1_TopCapableDeclinesThenNothing ==
    (call.op = "ScrapeFromElement" /\ Capable(call.node) # {}
        /\ Scrape(providers[Min(Capable(call.node))], call.node) = Nil)
    => ret = Nil

\* C1 (amended): ScrapeFromElement(node) returns the provider and the data of
\* the first provider, in registry order, whose CanHandle(node) is true and
\* whose Scrape(node) yields data - a capable provider that scrapes nothing
\* is passed over - and nothing only when no capable provider yields data.
C1_FirstYieldingProviderWins ==
    call.op = "ScrapeFromElement" =>
        IF Yielding(call.node) = {} THEN ret = Nil
        ELSE LET i == Min(Yielding(call.node))
             IN  ret = Some([Provider |-> providers[i],
                             Data |-> Val(Scrape(providers[i], call.node))])

\* C1 witness: the top capable provider declined and a lower one supplied the result.
C1_Witness ==
    /\ call.op = "ScrapeFromElement"
    /\ Capable(call.node) # {}
    /\ Scrape(providers[Min(Capable(call.node))], call.node) = Nil
    /\ ret # Nil
    /\ Val(ret).Provider = providers[Min(Yielding(call.node))]
    /\ Val(ret).Provider.priority > providers[Min(Capable(call.node))].priority

\* Positions of the providers that have a partition with a non-empty list for the key.
Holding(key, pd) ==
    {i \in 1..Len(providers) :
        /\ providers[i].name \in DOMAIN pd
        /\ key \in DOMAIN pd[providers[i].name]
        /\ Len(pd[providers[i].name][key]) > 0}

OGTitleA_TwitterTitleB ==
    ("openGraph" :> (S("title") :> <<A>>)) @@ ("twitter" :> (S("title") :> <<B>>))

\* C2: ResolveValue(key, providerData) returns the GetValue result of the
\* first provider in registry (ascending priority) order that has a partition
\* and a non-empty list for key, nothing when there is none; with OpenGraph
\* {title: A} and Twitter {title: B} and OpenGraph registered it returns A.
C2_ResolveValueFirstHolder ==
    call.op = "ResolveValue" =>
        LET key == call.key
            pd == call.providerData
        IN  /\ IF Holding(key, pd) = {} THEN ret = Nil
               ELSE ret = GetValue(key, pd[providers[Min(Holding(key, pd))].name])
            /\ (/\ pd = OGTitleA_TwitterTitleB
                /\ key = S("title")
                /\ \E i \in 1..Len(providers) : providers[i] = OpenGraphProvider)
               => ret = Some(A)

\* C2 witness: OpenGraph and Twitter both registered and both holding a title.
C2_Witness ==
    /\ call.op = "ResolveValue"
    /\ call.providerData = OGTitleA_TwitterTitleB
    /\ call.key = S("title")
    /\ \E i, j \in 1..Len(providers) :
        providers[i] = OpenGraphProvider /\ providers[j] = TwitterProvider
    /\ ret = Some(A)

\* C3: in every reachable state of a registry the provider list is sorted
\* ascending by Priority().
C3_SortedByPriority ==
    \A i, j \in 1..Len(providers) :
        i < j => providers[i].priority <= providers[j].priority

\* C3 witness: AddProvider added a provider that had to move before others.
C3_Witness ==
    /\ call.op = "AddProvider"
    /\ Len(call.before) >= 2
    /\ call.provider.priority < call.before[1].priority
    /\ providers[1] = call.provider

\* The providers of a list that have the given priority, in list order.
WithPriority(list, q) ==
    LET Has(x) == x.priority = q IN SelectSeq(list, Has)

\* C4 (as stated): NewRegistry leaves the caller's list in its original order
\* and sorts its copy stably - providers of equal priority keep their
\* relative input order.
C4_CopiedAndStable ==
    call.op = "NewRegistry" =>
        /\ call.caller = call.list
        /\ \A x \in 1..Len(call.list) :
            WithPriority(providers, call.list[x].priority)
                = WithPriority(call.list, call.list[x].priority)

-----------------------------------------------------------------------------
(* Loader and scraper factory.                                             *)

\* NewLoader: Loader.defaultProviders
defaultProviders ==
    <<OpenGraphProvider, TwitterProvider, StandardMetaProvider, OtherElementsProvider>>

\* The providerMap of LoadFromList.
providerMap ==
    ("openGraph" :> OpenGraphProvider) @@ ("twitter" :> TwitterProvider)
        @@ ("meta" :> StandardMetaProvider) @@ ("other" :> OtherElementsProvider)

\* fmt.Errorf("unknown provider: %s", name)
UnknownProviderError(name) == <<"unknown provider: ", name>>

\* A returned (providers, error) pair; a nil slice is Nil.
Loaded(list) == [providers |-> Some(list), err |-> Nil]
Failed(msg) == [providers |-> Nil, err |-> Some(msg)]

\* Variants of LoadFromList: unknown names skipped; repeated names loaded once.
RECURSIVE SkipUnknownLoop(_, _, _)
SkipUnknownLoop(providerNames, i, acc) ==
    IF i > Len(providerNames) THEN
        (IF Len(acc) = 0 THEN Loaded(defaultProviders) ELSE Loaded(acc))
    ELSE IF providerNames[i] \in DOMAIN providerMap THEN
        SkipUnknownLoop(providerNames, i + 1, Append(acc, providerMap[providerNames[i]]))
    ELSE SkipUnknownLoop(providerNames, i + 1, acc)

LoadFromList_SkipUnknown(providerNames) == SkipUnknownLoop(providerNames, 1, <<>>)

RECURSIVE LoadOnceLoop(_, _, _)
LoadOnceLoop(providerNames, i, acc) ==
    IF i > Len(providerNames) THEN
        (IF Len(acc) = 0 THEN Loaded(defaultProviders) ELSE Loaded(acc))
    ELSE IF providerNames[i] \in DOMAIN providerMap THEN
        LoadOnceLoop(providerNames, i + 1,
            IF \E k \in 1..Len(acc) : acc[k] = providerMap[providerNames[i]] THEN acc
            ELSE Append(acc, providerMap[providerNames[i]]))
    ELSE Failed(UnknownProviderError(providerNames[i]))

LoadFromList_LoadOnce(providerNames) == LoadOnceLoop(providerNames, 1, <<>>)

RECURSIVE LoadFromListLoop(_, _, _)
LoadFromListLoop(providerNames, i, acc) ==
    IF i > Len(providerNames) THEN
        (IF Len(acc) = 0 THEN Loaded(defaultProviders) ELSE Loaded(acc))
    ELSE IF providerNames[i] \in DOMAIN providerMap THEN
        LoadFromListLoop(providerNames, i + 1, Append(acc, providerMap[providerNames[i]]))
    ELSE Failed(UnknownProviderError(providerNames[i]))

\* Loader.LoadFromList
LoadFromList(providerNames) == LoadFromListLoop(providerNames, 1, <<>>)

\* Loader.LoadDefaults
LoadDefaults == defaultProviders

\* Loader.LoadFromDirectory("") (the only call the factory makes): the defaults, no error.
LoadFromDirectory_Empty == Loaded(defaultProviders)

\* Loader.GetAvailableProviders
GetAvailableProviders == <<"openGraph", "twitter", "meta", "other">>

\* NewScraper: a Scraper holding the registry, with no document and no result yet.
NewScraper(reg) == [registry |-> reg, doc |-> Nil, result |-> Nil]

\* CreateScraperWithProviderNames: the (scraper, error) pairs it can return.
CreateScraperWithProviderNames(providerNames) ==
    LET loaded == LoadFromList(providerNames)
    IN  IF loaded.err # Nil THEN {[scraper |-> Nil, err |-> loaded.err]}
        ELSE {[scraper |-> Some(NewScraper([providers |-> r.providers])), err |-> Nil] :
                r \in NewRegistry(Val(loaded.providers))}

\* CreateScraper: the directory load with "" cannot fail; LoadDefaults is its fallback.
CreateScraper ==
    LET loaded == LoadFromDirectory_Empty
        providerList == IF loaded.err # Nil THEN LoadDefaults ELSE Val(loaded.providers)
    IN  {[scraper |-> Some(NewScraper([providers |-> r.providers])), err |-> Nil] :
            r \in NewRegistry(providerList)}

NameSamples == {"openGraph", "twitter", "meta", "other", "invalid"}

\* The names of the README's programmatic usage example.
ReadmeNames == <<"opengraph", "twitter", "standardmeta">>

NameLists == SeqsUpTo(NameSamples, MaxNames) \cup {ReadmeNames}

InitLoader ==
    /\ providers = <<>>
    /\ call = [op |-> "NewLoader"]
    /\ ret = defaultProviders
    /\ NoMetadata

DoLoadFromList(names) ==
    /\ ret' = LoadFromList(names)
    /\ call' = [op |-> "LoadFromList", names |-> names]
    /\ UNCHANGED <<providers, providerData, registry, Feeds, doc, result>>

DoCreateScraperWithProviderNames(names) ==
    /\ ret' \in CreateScraperWithProviderNames(names)
    /\ call' = [op |-> "CreateScraperWithProviderNames", names |-> names]
    /\ UNCHANGED <<providers, providerData, registry, Feeds, doc, result>>

DoCreateScraper ==
    /\ ret' \in CreateScraper
    /\ call' = [op |-> "CreateScraper"]
    /\ UNCHANGED <<providers, providerData, registry, Feeds, doc, result>>

NextLoader ==
    \/ \E names \in NameLists : DoLoadFromList(names)
    \/ \E names \in NameLists : DoCreateScraperWithProviderNames(names)
    \/ DoCreateScraper

SpecLoader == InitLoader /\ [][NextLoader]_vars

-----------------------------------------------------------------------------
(* Properties of the loader and factory, checked under SpecLoader.         *)

KnownNames == {"openGraph", "twitter", "meta", "other"}

Unknown(names) == {i \in 1..Len(names) : names[i] \notin KnownNames}

\* C6: a name list holding a name outside {openGraph, twitter, meta, other},
\* alone or among valid names at any position, fails with an "unknown
\* provider" error: LoadFromList returns no provider list, the factory
\* returns no scraper (so no registry), and the defaults are not used.
C6_UnknownNameFails ==
    (call.op \in {"LoadFromList", "CreateScraperWithProviderNames"}
        /\ Unknown(call.names) # {})
    => /\ ret.err # Nil
       /\ Val(ret.err)[1] = "unknown provider: "
       /\ Val(ret.err)[2] = call.names[Min(Unknown(call.names))]
       /\ call.op = "LoadFromList" => ret.providers = Nil
       /\ call.op = "CreateScraperWithProviderNames" => ret.scraper = Nil

\* C6 witness: the factory was given valid names followed by an unknown one.
C6_Witness ==
    /\ call.op = "CreateScraperWithProviderNames"
    /\ Len(call.names) >= 2
    /\ call.names[1] \in KnownNames
    /\ call.names[Len(call.names)] \notin KnownNames
    /\ ret.scraper = Nil

BuiltInPriority(name) ==
    CASE name = "openGraph" -> 1 [] name = "twitter" -> 2
      [] name = "meta" -> 3 [] name = "other" -> 4

\* C7: LoadFromList of the empty list succeeds with exactly the defaults
\* openGraph (1), twitter (2), meta (3), other (4) in that order; a non-empty
\* list of valid names yields exactly the named providers in the given
\* order, duplicates retained.
C7_EmptyDefaultsElseAsNamed ==
    (call.op = "LoadFromList" /\ Unknown(call.names) = {})
    => /\ ret.err = Nil
       /\ ret.providers # Nil
       /\ LET got == Val(ret.providers)
              want == IF call.names = <<>> THEN <<"openGraph", "twitter", "meta", "other">>
                      ELSE call.names
          IN  /\ Len(got) = Len(want)
              /\ \A i \in 1..Len(want) :
                    /\ got[i].name = want[i]
                    /\ got[i].priority = BuiltInPriority(want[i])

\* C7 witness: a valid list naming one provider twice, out of priority order.
C7_Witness ==
    /\ call.op = "LoadFromList"
    /\ call.names = <<"other", "openGraph", "other">>
    /\ ret.err = Nil
    /\ Len(Val(ret.providers)) = 3

-----------------------------------------------------------------------------
(* Metadata.  The Metadata value is the three variables providerData,      *)
(* registry and Feeds; its registry, when attached, is the model's         *)
(* registry (providers).                                                   *)

\* NewMetadata: an empty partition per provider registered, no feeds.
NewMetadata(ps) ==
    [providerData |-> [n \in {ps[i].name : i \in 1..Len(ps)} |-> EmptyMap],
     registry |-> TheRegistry,
     Feeds |-> <<>>]

\* An AddData that keeps a value once per list.
AddData_Once(pd, providerName, key, value) ==
    LET data == IF providerName \in DOMAIN pd THEN pd[providerName] ELSE EmptyMap
        values == IF key \in DOMAIN data THEN data[key] ELSE <<>>
        added == [k \in DOMAIN data \cup {key} |->
                     IF k = key
                     THEN IF \E i \in 1..Len(values) : values[i] = value
                          THEN values ELSE Append(values, value)
                     ELSE data[k]]
    IN  [n \in DOMAIN pd \cup {providerName} |-> IF n = providerName THEN added ELSE pd[n]]

\* Metadata.AddData: the providerData it leaves.
AddData(pd, providerName, key, value) ==
    LET data == IF providerName \in DOMAIN pd THEN pd[providerName] ELSE EmptyMap
        values == IF key \in DOMAIN data THEN data[key] ELSE <<>>
        added == [k \in DOMAIN data \cup {key} |->
                     IF k = key THEN Append(values, value) ELSE data[k]]
    IN  [n \in DOMAIN pd \cup {providerName} |-> IF n = providerName THEN added ELSE pd[n]]

\* A resolveValue that, when the registry finds nothing, takes the key from
\* whichever partition has it.
resolveValue_EveryPartition(reg, ps, pd, key) ==
    LET holders == {n \in DOMAIN pd : GetValue(key, pd[n]) # Nil}
    IN  IF reg = NoRegistry THEN Nil
        ELSE IF ResolveValue(ps, key, pd) # Nil THEN ResolveValue(ps, key, pd)
        ELSE IF holders # {} THEN GetValue(key, pd[CHOOSE n \in holders : TRUE])
        ELSE Nil

\* Metadata.resolveValue
resolveValue(reg, ps, pd, key) ==
    IF reg = NoRegistry THEN Nil ELSE ResolveValue(ps, key, pd)

DefaultFavicon == S("/favicon.ico")

Favicon_IconOnly(reg, ps, pd) ==
    IF resolveValue(reg, ps, pd, S("icon")) # Nil
    THEN Val(resolveValue(reg, ps, pd, S("icon")))
    ELSE DefaultFavicon

\* Metadata.Favicon
Favicon(reg, ps, pd) ==
    IF resolveValue(reg, ps, pd, S("icon")) # Nil
    THEN Val(resolveValue(reg, ps, pd, S("icon")))
    ELSE IF resolveValue(reg, ps, pd, S("shortcut icon")) # Nil
    THEN Val(resolveValue(reg, ps, pd, S("shortcut icon")))
    ELSE DefaultFavicon

Title_PerProvider(reg, ps, pd) ==
    LET Both(data) ==
            IF GetValue(S("title"), data) # Nil THEN GetValue(S("title"), data)
            ELSE GetValue(S("firstHeading"), data)
        first == {i \in 1..Len(ps) : ps[i].name \in DOMAIN pd /\ Both(pd[ps[i].name]) # Nil}
    IN  IF reg = NoRegistry \/ first = {} THEN Nil
        ELSE Both(pd[ps[CHOOSE i \in first : \A j \in first : i <= j].name])

\* A Title that prefers the first heading.
Title_HeadingFirst(reg, ps, pd) ==
    IF resolveValue(reg, ps, pd, S("firstHeading")) # Nil
    THEN resolveValue(reg, ps, pd, S("firstHeading"))
    ELSE resolveValue(reg, ps, pd, S("title"))

\* Metadata.Title
Title(reg, ps, pd) ==
    IF resolveValue(reg, ps, pd, S("title")) # Nil
    THEN resolveValue(reg, ps, pd, S("title"))
    ELSE resolveValue(reg, ps, pd, S("firstHeading"))

\* Metadata.Description
Description(reg, ps, pd) == resolveValue(reg, ps, pd, S("description"))

\* Metadata.Image
Image(reg, ps, pd) == resolveValue(reg, ps, pd, S("image"))

\* Metadata.URL
URL(reg, ps, pd) == resolveValue(reg, ps, pd, S("url"))

\* Metadata.SiteName
SiteName(reg, ps, pd) ==
    IF resolveValue(reg, ps, pd, S("site_name")) # Nil
    THEN resolveValue(reg, ps, pd, S("site_name"))
    ELSE resolveValue(reg, ps, pd, S("site"))

\* A GetProviderData that hands out a new map whatever is stored.
GetProviderData_Fresh(pd, providerName) == EmptyMap

\* Metadata.GetProviderData
GetProviderData(pd, providerName) ==
    IF providerName \in DOMAIN pd THEN pd[providerName] ELSE EmptyMap

\* Metadata.OpenGraph, TwitterCard, Meta, Other
OpenGraph(pd) == GetProviderData(pd, "openGraph")
TwitterCard(pd) == GetProviderData(pd, "twitter")
Meta(pd) == GetProviderData(pd, "meta")
Other(pd) == GetProviderData(pd, "other")

\* Number of values stored in a providerData.
DataCount(pd) ==
    Cardinality(UNION {UNION {{<<n, k, i>> : i \in 1..Len(pd[n][k])} : k \in DOMAIN pd[n]} :
                        n \in DOMAIN pd})

MetadataPool == {OpenGraphProvider, OtherElementsProvider}
MetadataLists == SeqsUpTo(MetadataPool, MaxProviders)
DataNames == {"openGraph", "other", "custom"}
DataKeys == {S("title"), S("firstHeading"), S("icon"), S("shortcut icon")}
DataValues == {A, B}

\* A Metadata from NewMetadata over a freshly built registry, or the literal
\* Metadata{providerData: make(ProviderData)} with no registry.
InitMetadata ==
    /\ \/ \E list \in MetadataLists : \E r \in NewRegistry(list) :
            /\ providers = r.providers
            /\ providerData = NewMetadata(r.providers).providerData
            /\ registry = NewMetadata(r.providers).registry
            /\ Feeds = NewMetadata(r.providers).Feeds
            /\ call = [op |-> "NewMetadata"]
       \/ /\ providers = <<>>
          /\ providerData = EmptyMap
          /\ registry = NoRegistry
          /\ Feeds = <<>>
          /\ call = [op |-> "Metadata{}"]
    /\ ret = Nil
    /\ doc = Nil
    /\ result = Nil

DoAddData(providerName, key, value) ==
    /\ DataCount(providerData) < MaxData
    /\ providerData' = AddData(providerData, providerName, key, value)
    /\ call' = [op |-> "AddData", providerName |-> providerName, key |-> key, value |-> value]
    /\ ret' = Nil
    /\ UNCHANGED <<providers, registry, Feeds, doc, result>>

DoTitle ==
    /\ ret' = Title(registry, providers, providerData)
    /\ call' = [op |-> "Title"]
    /\ UNCHANGED <<providers, providerData, registry, Feeds, doc, result>>

DoFavicon ==
    /\ ret' = Favicon(registry, providers, providerData)
    /\ call' = [op |-> "Favicon"]
    /\ UNCHANGED <<providers, providerData, registry, Feeds, doc, result>>

\* AddProvider / RemoveProvider on the registry a Metadata is attached to.
DoRegistryAdd(p) ==
    /\ registry = TheRegistry
    /\ Len(providers) < MaxProviders
    /\ providers' \in AddProvider(providers, p)
    /\ call' = [op |-> "AddProvider", provider |-> p]
    /\ ret' = Nil
    /\ UNCHANGED <<providerData, registry, Feeds, doc, result>>

DoRegistryRemove(name) ==
    /\ registry = TheRegistry
    /\ providers' = RemoveProvider(providers, name)
    /\ call' = [op |-> "RemoveProvider", name |-> name]
    /\ ret' = Nil
    /\ UNCHANGED <<providerData, registry, Feeds, doc, result>>

NextMetadata ==
    \/ \E n \in DataNames, k \in DataKeys, v \in DataValues : DoAddData(n, k, v)
    \/ DoTitle
    \/ DoFavicon
    \/ \E p \in MetadataPool : DoRegistryAdd(p)
    \/ \E n \in {p.name : p \in MetadataPool} : DoRegistryRemove(n)

SpecMetadata == InitMetadata /\ [][NextMetadata]_vars

\* The raw-data accessors.  A Go map value is a reference: Some(contents)
\* for a map, Nil for the nil map.
DoGetProviderData(providerName) ==
    /\ ret' = Some(GetProviderData(providerData, providerName))
    /\ call' = [op |-> "GetProviderData", providerName |-> providerName]
    /\ UNCHANGED <<providers, providerData, registry, Feeds, doc, result>>

DoOpenGraph ==
    /\ ret' = Some(OpenGraph(providerData))
    /\ call' = [op |-> "OpenGraph", providerName |-> "openGraph"]
    /\ UNCHANGED <<providers, providerData, registry, Feeds, doc, result>>

DoTwitterCard ==
    /\ ret' = Some(TwitterCard(providerData))
    /\ call' = [op |-> "TwitterCard", providerName |-> "twitter"]
    /\ UNCHANGED <<providers, providerData, registry, Feeds, doc, result>>

DoMeta ==
    /\ ret' = Some(Meta(providerData))
    /\ call' = [op |-> "Meta", providerName |-> "meta"]
    /\ UNCHANGED <<providers, providerData, registry, Feeds, doc, result>>

DoOther ==
    /\ ret' = Some(Other(providerData))
    /\ call' = [op |-> "Other", providerName |-> "other"]
    /\ UNCHANGED <<providers, providerData, registry, Feeds, doc, result>>

PartitionLists ==
    {<<>>, <<OpenGraphProvider>>, <<OtherElementsProvider, OpenGraphProvider>>}

\* A Metadata from NewMetadata over a freshly built registry, or one made
\* with an empty providerData and no registry.
InitPartitions ==
    /\ \/ \E list \in PartitionLists : \E r \in NewRegistry(list) :
            /\ providers = r.providers
            /\ providerData = NewMetadata(r.providers).providerData
            /\ registry = NewMetadata(r.providers).registry
            /\ Feeds = NewMetadata(r.providers).Feeds
            /\ call = [op |-> "NewMetadata"]
       \/ /\ providers = <<>>
          /\ providerData = EmptyMap
          /\ registry = NoRegistry
          /\ Feeds = <<>>
          /\ call = [op |-> "Metadata{}"]
    /\ ret = Nil
    /\ doc = Nil
    /\ result = Nil

\* A Metadata that is filled by AddData and read through the raw-data accessors.
NextPartitions ==
    \/ \E n \in DataNames, k \in DataKeys, v \in DataValues : DoAddData(n, k, v)
    \/ \E n \in DataNames : DoGetProviderData(n)
    \/ DoOpenGraph
    \/ DoTwitterCard
    \/ DoMeta
    \/ DoOther

SpecPartitions == InitPartitions /\ [][NextPartitions]_vars

\* The derived accessors besides Title and Favicon.
DoDescription ==
    /\ ret' = Description(registry, providers, providerData)
    /\ call' = [op |-> "Description"]
    /\ UNCHANGED <<providers, providerData, registry, Feeds, doc, result>>

DoImage ==
    /\ ret' = Image(registry, providers, providerData)
    /\ call' = [op |-> "Image"]
    /\ UNCHANGED <<providers, providerData, registry, Feeds, doc, result>>

DoURL ==
    /\ ret' = URL(registry, providers, providerData)
    /\ call' = [op |-> "URL"]
    /\ UNCHANGED <<providers, providerData, registry, Feeds, doc, result>>

DoSiteName ==
    /\ ret' = SiteName(registry, providers, providerData)
    /\ call' = [op |-> "SiteName"]
    /\ UNCHANGED <<providers, providerData, registry, Feeds, doc, result>>

\* Data under the name of a built-in provider and under a name no provider
\* has; the value tells the partition it was stored in.
AccessorData == {<<"openGraph", A>>, <<"custom", B>>}
AccessorKeys ==
    {S("title"), S("description"), S("image"), S("url"), S("site"), S("icon")}

\* A Metadata from NewMetadata over the registry of the OpenGraph provider,
\* or one with an empty providerData and no registry.
InitAccessors ==
    /\ \/ \E r \in NewRegistry(<<OpenGraphProvider>>) :
            /\ providers = r.providers
            /\ providerData = NewMetadata(r.providers).providerData
            /\ registry = NewMetadata(r.providers).registry
            /\ Feeds = NewMetadata(r.providers).Feeds
            /\ call = [op |-> "NewMetadata"]
       \/ /\ providers = <<>>
          /\ providerData = EmptyMap
          /\ registry = NoRegistry
          /\ Feeds = <<>>
          /\ call = [op |-> "Metadata{}"]
    /\ ret = Nil
    /\ doc = Nil
    /\ result = Nil

\* A Metadata that is filled by AddData and read through every accessor
\* while providers leave and join its registry.
NextAccessors ==
    \/ \E nv \in AccessorData, k \in AccessorKeys : DoAddData(nv[1], k, nv[2])
    \/ DoRegistryRemove("openGraph")
    \/ DoRegistryAdd(OpenGraphProvider)
    \/ DoTitle
    \/ DoDescription
    \/ DoImage
    \/ DoURL
    \/ DoSiteName
    \/ DoFavicon
    \/ \E nv \in AccessorData : DoGetProviderData(nv[1])

SpecAccessors == InitAccessors /\ [][NextAccessors]_vars

-----------------------------------------------------------------------------
(* Properties of the Metadata accessors, checked under SpecMetadata.       *)

\* The value the attached registry resolves for a key from this Metadata's
\* data: the first value of the first registered provider, in registry order,
\* whose partition holds a non-empty list for the key.
Resolved(key) ==
    IF registry = NoRegistry \/ Holding(key, providerData) = {} THEN Nil
    ELSE Some(providerData[providers[Min(Holding(key, providerData))].name][key][1])

\* C8: Title() is the resolved value of title whenever a registered
\* provider's partition holds a title, and the resolved value of firstHeading
\* only when no registered provider holds a title (nothing when neither is
\* held); so a title of a lower-priority provider beats a firstHeading of a
\* higher-priority one.
C8_TitleThenFirstHeading ==
    call.op = "Title" =>
        /\ Resolved(S("title")) # Nil => ret = Resolved(S("title"))
        /\ Resolved(S("title")) = Nil => ret = Resolved(S("firstHeading"))

\* C8 witness: the first registered provider holds only a firstHeading, a
\* later one holds a title, and Title() returned that title.
C8_Witness ==
    /\ call.op = "Title"
    /\ Holding(S("title"), providerData) # {}
    /\ Holding(S("firstHeading"), providerData) # {}
    /\ Min(Holding(S("firstHeading"), providerData)) < Min(Holding(S("title"), providerData))
    /\ providers[Min(Holding(S("firstHeading"), providerData))].priority
            < providers[Min(Holding(S("title"), providerData))].priority
    /\ ret = Resolved(S("title"))
    /\ ret # Resolved(S("firstHeading"))

\* C9: Favicon() is the resolved value of icon if there is one, else that of
\* "shortcut icon", else the literal /favicon.ico - also with no registry
\* attached or no data.
C9_FaviconFallback ==
    call.op = "Favicon" =>
        /\ Resolved(S("icon")) # Nil => ret = Val(Resolved(S("icon")))
        /\ (Resolved(S("icon")) = Nil /\ Resolved(S("shortcut icon")) # Nil)
            => ret = Val(Resolved(S("shortcut icon")))
        /\ (Resolved(S("icon")) = Nil /\ Resolved(S("shortcut icon")) = Nil)
            => ret = <<"/favicon.ico">>
        /\ registry = NoRegistry => ret = <<"/favicon.ico">>

\* C9 witness: no icon is held, a shortcut icon is, and Favicon() returned it.
C9_Witness ==
    /\ call.op = "Favicon"
    /\ Resolved(S("icon")) = Nil
    /\ Resolved(S("shortcut icon")) # Nil
    /\ ret = Val(Resolved(S("shortcut icon")))

-----------------------------------------------------------------------------
(* Scraper.                                                                *)

\* Scraper.walkNodes with a callback that always returns true: the nodes in
\* the order the callback sees them.
RECURSIVE walkNodes(_)
RECURSIVE WalkChildren(_, _)
WalkChildren(kids, i) ==
    IF i > Len(kids) THEN <<>>
    ELSE walkNodes(kids[i]) \o WalkChildren(kids, i + 1)

RECURSIVE ChildrenOf(_, _)
ChildrenOf(nodes, i) ==
    IF i > Len(nodes) THEN <<>> ELSE nodes[i].children \o ChildrenOf(nodes, i + 1)

RECURSIVE LevelByLevel(_)
LevelByLevel(nodes) ==
    IF nodes = <<>> THEN <<>> ELSE nodes \o LevelByLevel(ChildrenOf(nodes, 1))

\* A walk that visits all siblings before any of their children.
walkNodes_SiblingsFirst(n) == LevelByLevel(<<n>>)

walkNodes(n) == <<n>> \o WalkChildren(n.children, 1)

RECURSIVE EveryProviderLoop(_, _, _, _)
EveryProviderLoop(pd, ps, node, i) ==
    IF i > Len(ps) THEN pd
    ELSE EveryProviderLoop(
            IF CanHandle(ps[i], node) /\ Scrape(ps[i], node) # Nil
            THEN AddData(pd, ps[i].name, Val(Scrape(ps[i], node)).Key, Val(Scrape(ps[i], node)).Value)
            ELSE pd,
            ps, node, i + 1)

\* A scrapeFromElement that stores what every capable provider extracts.
scrapeFromElement_EveryProvider(pd, ps, node) == EveryProviderLoop(pd, ps, node, 1)

\* Scraper.scrapeFromElement: the providerData of the result afterwards.
scrapeFromElement(pd, ps, node) ==
    LET extraction == ScrapeFromElement(ps, node)
    IN  IF extraction # Nil
        THEN AddData(pd, Val(extraction).Provider.name,
                     Val(extraction).Data.Key, Val(extraction).Data.Value)
        ELSE pd

\* The element test of each of the four provider passes.
Visits(pass, n) ==
    /\ n.Type = ElementNode
    /\ CASE pass = "meta" -> n.Data = "meta"
         [] pass = "title" -> n.Data = "title"
         [] pass = "h1" -> n.Data = "h1"
         [] pass = "link" -> n.Data = "link" /\ hasAttribute(n, S("rel"))

RECURSIVE ScrapePass(_, _, _, _, _)
ScrapePass(pd, ps, nodes, i, pass) ==
    IF i > Len(nodes) THEN pd
    ELSE ScrapePass(IF Visits(pass, nodes[i]) THEN scrapeFromElement(pd, ps, nodes[i]) ELSE pd,
                    ps, nodes, i + 1, pass)

\* Scraper.scrapeMetaTags, scrapeTitleTag, scrapeHeadingTags, scrapeLinkTags
scrapeMetaTags(pd, ps, root) == ScrapePass(pd, ps, walkNodes(root), 1, "meta")
scrapeTitleTag(pd, ps, root) == ScrapePass(pd, ps, walkNodes(root), 1, "title")
scrapeHeadingTags(pd, ps, root) == ScrapePass(pd, ps, walkNodes(root), 1, "h1")
scrapeLinkTags(pd, ps, root) == ScrapePass(pd, ps, walkNodes(root), 1, "link")

Feed(title, feedType, href) ==
    [Title |-> IF title # EmptyString THEN Some(title) ELSE Nil, Type |-> feedType, Href |-> href]

RECURSIVE FeedPass(_, _, _)
FeedPass(feeds, nodes, i) ==
    IF i > Len(nodes) THEN feeds
    ELSE LET n == nodes[i]
             isFeed == /\ n.Type = ElementNode
                       /\ n.Data = "link"
                       /\ getAttribute(n, S("rel")) = S("alternate")
                       /\ getAttribute(n, S("href")) # EmptyString
         IN  FeedPass(IF isFeed
                      THEN Append(feeds, Feed(getAttribute(n, S("title")),
                                              getAttribute(n, S("type")),
                                              getAttribute(n, S("href"))))
                      ELSE feeds,
                      nodes, i + 1)

\* Scraper.scrapeFeedLinks: the Feeds of the result afterwards.
scrapeFeedLinks(feeds, root) == FeedPass(feeds, walkNodes(root), 1)

NilDocumentError == <<"HTML document cannot be nil">>

\* A Scrape that hands back the Metadata it started along with the error.
Scraper_Scrape_PartialOnNil(ps, d) ==
    IF d = Nil THEN [result |-> Some(NewMetadata(ps)), err |-> Some(NilDocumentError)]
    ELSE [result |-> Some(NewMetadata(ps)), err |-> Nil]

\* A Scrape that runs the title pass before the meta pass.
Scraper_Scrape_TitleFirst(ps, d) ==
    IF d = Nil THEN [result |-> Nil, err |-> Some(NilDocumentError)]
    ELSE LET fresh == NewMetadata(ps)
             root == Val(d)
             pd1 == scrapeTitleTag(fresh.providerData, ps, root)
             pd2 == scrapeMetaTags(pd1, ps, root)
             pd3 == scrapeHeadingTags(pd2, ps, root)
             pd4 == scrapeLinkTags(pd3, ps, root)
         IN  [result |-> Some([providerData |-> pd4,
                               registry |-> fresh.registry,
                               Feeds |-> scrapeFeedLinks(fresh.Feeds, root)]),
              err |-> Nil]

\* Scraper.Scrape on a scraper whose registry holds ps: the returned
\* (*Metadata, error); on success the Metadata is also Scraper.result.
Scraper_Scrape(ps, d) ==
    IF d = Nil THEN [result |-> Nil, err |-> Some(NilDocumentError)]
    ELSE LET fresh == NewMetadata(ps)
             root == Val(d)
             pd1 == scrapeMetaTags(fresh.providerData, ps, root)
             pd2 == scrapeTitleTag(pd1, ps, root)
             pd3 == scrapeHeadingTags(pd2, ps, root)
             pd4 == scrapeLinkTags(pd3, ps, root)
         IN  [result |-> Some([providerData |-> pd4,
                               registry |-> fresh.registry,
                               Feeds |-> scrapeFeedLinks(fresh.Feeds, root)]),
              err |-> Nil]

\* CreateScraperWithProviders
CreateScraperWithProviders(providerList) ==
    {NewScraper([providers |-> r.providers]) : r \in NewRegistry(providerList)}

\* ScrapeMetadata: each scraper CreateScraper can build, with what its Scrape returns.
ScrapeMetadata(d) ==
    {[scraper |-> Val(c.scraper),
      out |-> Scraper_Scrape(Val(c.scraper).registry.providers, d)] : c \in CreateScraper}

FeedLink == LinkNode(<<Attribute(S("rel"), S("alternate")),
                       Attribute(S("type"), S("application/rss+xml")),
                       Attribute(S("title"), S("Feed")), Attribute(S("href"), S("/f.xml"))>>)
BareFeedLink == LinkNode(<<Attribute(S("rel"), S("alternate")), Attribute(S("href"), S("/g.xml"))>>)
EmptyTitleFeedLink == LinkNode(<<Attribute(S("rel"), S("alternate")), Attribute(S("title"), EmptyString),
                                 Attribute(S("type"), S("application/atom+xml")),
                                 Attribute(S("href"), S("/a.xml"))>>)
NoHrefFeedLink == LinkNode(<<Attribute(S("rel"), S("alternate")), Attribute(S("title"), S("Feed")),
                             Attribute(S("href"), EmptyString)>>)
IconLink == LinkNode(<<Attribute(S("rel"), S("icon")), Attribute(S("href"), S("/i.png"))>>)
\* An <a rel="alternate"> around a feed link: not a link element itself, and
\* its feed link sits deeper than a later sibling.
AlternateAnchor ==
    Element("a", <<Attribute(S("rel"), S("alternate")), Attribute(S("href"), S("/x"))>>, <<FeedLink>>)

\* What a document's root may hold.
DocItems ==
    {FeedLink, BareFeedLink, EmptyTitleFeedLink, NoHrefFeedLink, IconLink, AlternateAnchor}

Documents == {Element("html", <<>>, kids) : kids \in SeqsUpTo(DocItems, MaxChildren)}

DocInputs == {Nil} \cup {Some(d) : d \in Documents}

\* A scraper from CreateScraper, before its first Scrape.
InitScraper ==
    /\ \E s \in {Val(c.scraper) : c \in CreateScraper} :
        /\ providers = s.registry.providers
        /\ doc = s.doc
        /\ result = s.result
    /\ providerData = EmptyMap
    /\ registry = NoRegistry
    /\ Feeds = <<>>
    /\ call = [op |-> "NewScraper"]
    /\ ret = Nil

\* The scraper state and return value after Scrape(d) returned out.
Scraped(d, out) ==
    /\ ret' = out
    /\ IF out.err # Nil
       THEN UNCHANGED <<doc, result, providerData, registry, Feeds>>
       ELSE /\ doc' = d
            /\ result' = Some(TheMetadata)
            /\ providerData' = Val(out.result).providerData
            /\ registry' = Val(out.result).registry
            /\ Feeds' = Val(out.result).Feeds

DoScrape(d) ==
    /\ call' = [op |-> "Scrape", doc |-> d]
    /\ \E out \in {Scraper_Scrape(providers, d)} : Scraped(d, out)
    /\ UNCHANGED providers

\* ScrapeMetadata builds its own scraper: that scraper replaces the model's.
DoScrapeMetadata(d) ==
    /\ call' = [op |-> "ScrapeMetadata", doc |-> d]
    /\ \E m \in ScrapeMetadata(d) :
        /\ providers' = m.scraper.registry.providers
        /\ IF m.out.err # Nil
           THEN /\ ret' = m.out
                /\ doc' = m.scraper.doc
                /\ result' = m.scraper.result
                /\ providerData' = EmptyMap
                /\ registry' = NoRegistry
                /\ Feeds' = <<>>
           ELSE Scraped(d, m.out)

NextScraper ==
    \/ \E d \in DocInputs : DoScrape(d)
    \/ \E d \in DocInputs : DoScrapeMetadata(d)

SpecScraper == InitScraper /\ [][NextScraper]_vars

-----------------------------------------------------------------------------
(* Scraper claims.                                                         *)

ScrapeCalled == call.op \in {"Scrape", "ScrapeMetadata"}

\* C5: Scrape called with a nil document returns an error and no Metadata
\* result, on a Scraper directly and through ScrapeMetadata; the scraper
\* holds no result of that call either.
C5_NilDocumentFails ==
    (ScrapeCalled /\ call.doc = Nil) =>
        /\ ret.err = Some(NilDocumentError)
        /\ ret.result = Nil
        /\ call.op = "ScrapeMetadata" => result = Nil

\* ScrapeMetadata has returned for a nil document.
C5_Witness ==
    /\ call.op = "ScrapeMetadata"
    /\ call.doc = Nil
    /\ ret.err # Nil

\* The positions of a tree's nodes, each the child indexes from the root.
RECURSIVE PathsOf(_)
PathsOf(n) ==
    {<<>>} \cup UNION {{<<i>> \o p : p \in PathsOf(n.children[i])} : i \in 1..Len(n.children)}

RECURSIVE NodeAt(_, _)
NodeAt(n, path) == IF path = <<>> THEN n ELSE NodeAt(n.children[Head(path)], Tail(path))

\* Document order: an ancestor comes before its descendants, an earlier
\* sibling's subtree before a later sibling's.
Precedes(p, q) ==
    \/ Len(p) < Len(q) /\ SubSeq(q, 1, Len(p)) = p
    \/ \E i \in 1..Min({Len(p), Len(q)}) :
        /\ SubSeq(p, 1, i - 1) = SubSeq(q, 1, i - 1)
        /\ p[i] < q[i]

RECURSIVE InDocumentOrder(_)
InDocumentOrder(paths) ==
    IF paths = {} THEN <<>>
    ELSE LET first == CHOOSE p \in paths : \A q \in paths \ {p} : Precedes(p, q)
         IN  <<first>> \o InDocumentOrder(paths \ {first})

IsFeedLink(n) ==
    /\ n.Type = ElementNode
    /\ n.Data = "link"
    /\ \E i \in 1..Len(n.Attr) : n.Attr[i].Key = S("rel")
    /\ getAttribute(n, S("rel")) = S("alternate")
    /\ getAttribute(n, S("href")) # EmptyString

ExpectedFeeds(root) ==
    LET paths == InDocumentOrder({p \in PathsOf(root) : IsFeedLink(NodeAt(root, p))})
    IN  [i \in 1..Len(paths) |->
            LET n == NodeAt(root, paths[i])
            IN  [Title |-> IF hasAttribute(n, S("title")) /\ getAttribute(n, S("title")) # EmptyString
                           THEN Some(getAttribute(n, S("title"))) ELSE Nil,
                 Type |-> getAttribute(n, S("type")),
                 Href |-> getAttribute(n, S("href"))]]

\* C10: after a successful Scrape the result's Feeds are, in document
\* (depth-first pre-order) order, one Feed per link element whose rel equals
\* alternate and whose href is non-empty, with no deduplication: Href never
\* empty, Type the type attribute, Title absent when the title attribute is
\* missing or empty.
C10_FeedsInDocumentOrder ==
    (ScrapeCalled /\ ret.err = Nil) =>
        /\ Feeds = ExpectedFeeds(Val(call.doc))
        /\ Val(ret.result).Feeds = Feeds
        /\ \A i \in 1..Len(Feeds) : Feeds[i].Href # EmptyString

\* A nested feed link comes before a later sibling link without title or
\* type, and a repeated link gives a repeated Feed.
C10_Witness ==
    /\ call.op = "Scrape"
    /\ ret.err = Nil
    /\ \/ /\ Val(call.doc).children = <<AlternateAnchor, BareFeedLink>>
          /\ Feeds = <<[Title |-> Some(S("Feed")), Type |-> S("application/rss+xml"), Href |-> S("/f.xml")],
                       [Title |-> Nil, Type |-> EmptyString, Href |-> S("/g.xml")]>>
       \/ /\ Val(call.doc).children = <<FeedLink, FeedLink>>
          /\ Len(Feeds) = 2
          /\ Feeds[1] = Feeds[2]

-----------------------------------------------------------------------------
(* Scraping pages that carry data for the providers.                       *)

OGTitleMeta == MetaNode(<<Attribute(S("property"), <<"og:", "title">>), Attribute(S("content"), S("Hello"))>>)
NameTitleMeta == MetaNode(<<Attribute(S("name"), S("title")), Attribute(S("content"), S("Page"))>>)
TitleElement == Element("title", <<>>, <<Text(S("Doc"))>>)
Heading == Element("h1", <<>>, <<Text(S("Fallback"))>>)
\* A meta element one level down, so that it sits deeper than a later sibling.
Section ==
    Element("div", <<>>,
            <<MetaNode(<<Attribute(S("name"), S("title")), Attribute(S("content"), S("Deep"))>>)>>)

PageItems == {OGTitleMeta, NameTitleMeta, TitleElement, Heading, FeedLink, Section}

Pages == {Element("html", <<>>, kids) : kids \in SeqsUpTo(PageItems, MaxElements)}

PageInputs == {Some(d) : d \in Pages}

\* A registry in which a test provider shares the name of the standard meta
\* provider: both write a key title to the partition "meta", one from meta
\* elements and one from title elements.
SharedNameProviders == <<StandardMetaProvider, ScraperMockProvider("meta", 5, "title")>>

PageScrapers ==
    {Val(c.scraper) : c \in CreateScraper} \cup CreateScraperWithProviders(SharedNameProviders)

\* A scraper from CreateScraper or CreateScraperWithProviders, before its first Scrape.
InitPages ==
    /\ \E s \in PageScrapers :
        /\ providers = s.registry.providers
        /\ doc = s.doc
        /\ result = s.result
    /\ providerData = EmptyMap
    /\ registry = NoRegistry
    /\ Feeds = <<>>
    /\ call = [op |-> "NewScraper"]
    /\ ret = Nil

\* The first Scrape of a scraper.
DoFirstScrape(d) ==
    /\ result = Nil
    /\ DoScrape(d)

NextPages ==
    \/ \E d \in PageInputs : DoFirstScrape(d)
    \/ result # Nil /\ DoTitle

SpecPages == InitPages /\ [][NextPages]_vars

\* Elements that carry no value, an og: property with nothing behind the
\* prefix, and a meta element with both prefixes.
EmptyContentMeta ==
    MetaNode(<<Attribute(S("name"), S("description")), Attribute(S("content"), EmptyString)>>)
BarePrefixMeta == MetaNode(<<Attribute(S("property"), <<"og:">>), Attribute(S("content"), S("V"))>>)
BothPrefixesMeta ==
    MetaNode(<<Attribute(S("property"), <<"og:", "image">>), Attribute(S("name"), <<"twitter:", "image">>),
               Attribute(S("content"), S("Both"))>>)
EmptyHrefIcon == LinkNode(<<Attribute(S("rel"), S("icon")), Attribute(S("href"), EmptyString)>>)
BlankTitle == Element("title", <<>>, <<Text(S(" "))>>)

DefaultItems ==
    {OGTitleMeta, TitleElement, FeedLink, Section,
     EmptyContentMeta, BarePrefixMeta, BothPrefixesMeta, EmptyHrefIcon, BlankTitle}

DefaultPages == {Element("html", <<>>, kids) : kids \in SeqsUpTo(DefaultItems, MaxElements)}

\* The scraper of CreateScraper, with the four default providers, before its
\* first Scrape.
InitDefaults ==
    /\ \E c \in CreateScraper :
        /\ providers = Val(c.scraper).registry.providers
        /\ doc = Val(c.scraper).doc
        /\ result = Val(c.scraper).result
    /\ providerData = EmptyMap
    /\ registry = NoRegistry
    /\ Feeds = <<>>
    /\ call = [op |-> "NewScraper"]
    /\ ret = Nil

NextDefaults ==
    \/ result = Nil /\ \E d \in DefaultPages : DoFirstScrape(Some(d))
    \/ result # Nil /\ \E i \in 1..Len(providers) : DoGetProviderData(providers[i].name)

SpecDefaults == InitDefaults /\ [][NextDefaults]_vars

-----------------------------------------------------------------------------
(* Claims about scraped pages.                                             *)

PassOrder == <<"meta", "title", "h1", "link">>

\* The elements a pass is about, told by tag.
InPass(pass, n) ==
    /\ n.Type = ElementNode
    /\ n.Data = pass
    /\ pass = "link" => \E i \in 1..Len(n.Attr) : n.Attr[i].Key = S("rel")

\* What the registry extracts from the node at a path for (name, key), if anything.
ExtractedAt(ps, root, path, name, key) ==
    LET e == ScrapeFromElement(ps, NodeAt(root, path))
    IN  IF e # Nil /\ Val(e).Provider.name = name /\ Val(e).Data.Key = key
        THEN <<Val(e).Data.Value>> ELSE <<>>

RECURSIVE Flatten(_)
Flatten(seqs) == IF seqs = <<>> THEN <<>> ELSE Head(seqs) \o Flatten(Tail(seqs))

\* The values for (name, key) of the elements of one pass, in document order.
PassValues(ps, root, pass, name, key) ==
    LET paths == InDocumentOrder({p \in PathsOf(root) : InPass(pass, NodeAt(root, p))})
    IN  Flatten([i \in 1..Len(paths) |-> ExtractedAt(ps, root, paths[i], name, key)])

ExpectedValues(ps, root, name, key) ==
    Flatten([i \in 1..Len(PassOrder) |-> PassValues(ps, root, PassOrder[i], name, key)])

\* Every (name, key) some element of the page is extracted to.
ExtractedKeys(ps, root) ==
    {<<Val(ScrapeFromElement(ps, NodeAt(root, p))).Provider.name,
       Val(ScrapeFromElement(ps, NodeAt(root, p))).Data.Key>> :
        p \in {q \in PathsOf(root) : ScrapeFromElement(ps, NodeAt(root, q)) # Nil}}

HeldKeys(pd) == UNION {{<<n, k>> : k \in DOMAIN pd[n]} : n \in DOMAIN pd}

ValuesOf(pd, name, key) ==
    IF name \in DOMAIN pd /\ key \in DOMAIN pd[name] THEN pd[name][key] ELSE <<>>

\* C11: in the result of a Scrape the value list of every provider name and
\* key holds first the values extracted from meta elements, then those from
\* title elements, then h1 elements, then link elements, each group in
\* document order; and nothing else.
C11_PassesInFixedOrder ==
    result # Nil =>
        \A nk \in ExtractedKeys(providers, Val(doc)) \cup HeldKeys(providerData) :
            ValuesOf(providerData, nk[1], nk[2]) = ExpectedValues(providers, Val(doc), nk[1], nk[2])

\* C11 witness: a title element precedes two meta elements, the first of them
\* nested; the list has the nested meta value, the later sibling's, then the
\* title element's.
C11_Witness ==
    /\ call.op = "Scrape"
    /\ ret.err = Nil
    /\ Val(doc).children = <<TitleElement, Section, NameTitleMeta>>
    /\ "meta" \in DOMAIN providerData
    /\ S("title") \in DOMAIN providerData["meta"]
    /\ providerData["meta"][S("title")] = <<S("Deep"), S("Page"), S("Doc")>>

Occurrences(seq, x) == Cardinality({i \in 1..Len(seq) : seq[i] = x})

\* The scraper of CreateScraper has scraped a page with the og:title meta
\* element, the h1 and one feed link.
HelloPageScraped ==
    /\ result # Nil
    /\ providers = defaultProviders
    /\ Occurrences(Val(doc).children, OGTitleMeta) >= 1
    /\ Occurrences(Val(doc).children, Heading) >= 1
    /\ Occurrences(Val(doc).children, FeedLink) = 1

\* C12: with the four default providers, a page holding a meta element with
\* property og:title and content Hello, an h1 with text Fallback and a link
\* rel=alternate type=application/rss+xml title=Feed href=/f.xml gives
\* Title() = Hello and exactly one Feed {Feed, application/rss+xml, /f.xml}.
C12_HelloPage ==
    HelloPageScraped =>
        /\ Title(registry, providers, providerData) = Some(S("Hello"))
        /\ call.op = "Title" => ret = Some(S("Hello"))
        /\ Feeds = <<[Title |-> Some(S("Feed")), Type |-> S("application/rss+xml"),
                      Href |-> S("/f.xml")]>>

\* C12 witness: Title() has returned on the result of such a page.
C12_Witness ==
    /\ HelloPageScraped
    /\ call.op = "Title"
    /\ ret = Some(S("Hello"))
    /\ Len(Feeds) = 1
    /\ S("firstHeading") \in DOMAIN providerData["other"]

-----------------------------------------------------------------------------
(* The built-in providers on single nodes.                                 *)

Optional(key, values) == {<<>>} \cup {<<Attribute(key, v)>> : v \in values}

MetaAttrValues ==
    {<<"og:", "title">>, <<"og:">>, <<"twitter:", "card">>, S("description"), EmptyString}

MetaAttrs ==
    {p \o n \o c : p \in Optional(S("property"), MetaAttrValues),
                   n \in Optional(S("name"), MetaAttrValues),
                   c \in Optional(S("content"), {S("V"), EmptyString})}

RelValues ==
    {S("icon"), S("shortcut icon"), S("canonical"), S("stylesheet"), S("alternate"), EmptyString}

LinkAttrs ==
    {r \o h : r \in Optional(S("rel"), RelValues), h \in Optional(S("href"), {S("/x"), EmptyString})}

TextKids ==
    {<<>>, <<Text(S("T"))>>, <<Text(S(" "))>>, <<Text(<<" ", "T", " ">>)>>,
     <<Element("span", <<>>, <<Text(S("a"))>>), Text(S("b"))>>,
     <<Element("span", <<>>, <<Text(<<"a", " ">>)>>), Text(S("b"))>>}

\* A text node that carries attributes.
AttributedText == [Type |-> TextNode, Data |-> S("T"), Attr |-> <<Attribute(S("rel"), S("stylesheet"))>>,
                   children |-> <<>>]

ProviderNodes ==
    {Element(tag, a, <<>>) : tag \in {"meta", "div"}, a \in MetaAttrs}
        \cup {Element(tag, a, kids) : tag \in {"title", "h1", "link", "a"}, a \in LinkAttrs, kids \in TextKids}
        \cup {AttributedText, Text(S("T"))}

BuiltInProviders == {OpenGraphProvider, TwitterProvider, StandardMetaProvider, OtherElementsProvider}

\* A provider and a node to hand to it.
InitProviders ==
    /\ \E p \in BuiltInProviders : \E n \in ProviderNodes :
        call = [op |-> "Input", provider |-> p, node |-> n]
    /\ ret = Nil
    /\ providers = <<>>
    /\ providerData = EmptyMap
    /\ registry = NoRegistry
    /\ Feeds = <<>>
    /\ doc = Nil
    /\ result = Nil

DoCanHandle ==
    /\ call' = [call EXCEPT !.op = "CanHandle"]
    /\ ret' = CanHandle(call.provider, call.node)
    /\ UNCHANGED <<providers, providerData, registry, Feeds, doc, result>>

DoProviderScrape ==
    /\ call' = [call EXCEPT !.op = "Provider.Scrape"]
    /\ ret' = Scrape(call.provider, call.node)
    /\ UNCHANGED <<providers, providerData, registry, Feeds, doc, result>>

NextProviders == DoCanHandle \/ DoProviderScrape

SpecProviders == InitProviders /\ [][NextProviders]_vars

-----------------------------------------------------------------------------
(* Provider claims.                                                        *)

IsMeta(n) == n.Type = ElementNode /\ n.Data = "meta"

StartsWith(s, token) == s # <<>> /\ s[1] = token

PrefixOf(p) == IF p = OpenGraphProvider THEN "og:" ELSE "twitter:"

\* The call is Scrape of OpenGraph or Twitter on a meta node whose property
\* carries the provider's prefix.
PrefixedPropertyScraped ==
    /\ call.op = "Provider.Scrape"
    /\ call.provider \in {OpenGraphProvider, TwitterProvider}
    /\ IsMeta(call.node)
    /\ StartsWith(getAttribute(call.node, S("property")), PrefixOf(call.provider))

\* C13: on a meta node with property og:X and content V, OpenGraph.Scrape
\* yields key X and value V; without a content attribute, or with an empty
\* one, it yields nothing.  Twitter.Scrape does the same for twitter:X.
C13_PrefixedPropertyScrape ==
    PrefixedPropertyScraped =>
        LET property == getAttribute(call.node, S("property"))
            content == getAttribute(call.node, S("content"))
        IN  IF content # EmptyString
            THEN ret = Some([Key |-> Tail(property), Value |-> content])
            ELSE ret = Nil

\* C13 witness: Twitter.Scrape has returned card = V for property twitter:card.
C13_Witness ==
    /\ PrefixedPropertyScraped
    /\ call.provider = TwitterProvider
    /\ ret = Some([Key |-> S("card"), Value |-> S("V")])

\* The attribute value that carries the og: prefix: property is looked at
\* first, then name.
OGAttribute(n) ==
    IF StartsWith(getAttribute(n, S("property")), "og:") THEN getAttribute(n, S("property"))
    ELSE getAttribute(n, S("name"))

\* C14: for every meta node that OpenGraph.CanHandle accepts and that has
\* non-empty content, the key of OpenGraph.Scrape is the value of the
\* attribute that carries the og: prefix (property first, then name) without
\* the prefix - also when property is non-empty without the prefix and only
\* name starts with og:.
C14_KeyFromPrefixedAttribute ==
    (/\ call.op = "Provider.Scrape"
     /\ call.provider = OpenGraphProvider
     /\ OpenGraphProvider_CanHandle(call.node)
     /\ getAttribute(call.node, S("content")) # EmptyString)
        => /\ ret # Nil
           /\ Val(ret).Key = Tail(OGAttribute(call.node))

\* What C15 says StandardMeta accepts.
PlainMeta(n) ==
    /\ IsMeta(n)
    /\ \/ getAttribute(n, S("name")) # EmptyString
       \/ getAttribute(n, S("property")) # EmptyString
    /\ \A a \in {S("name"), S("property")} :
        /\ ~StartsWith(getAttribute(n, a), "og:")
        /\ ~StartsWith(getAttribute(n, a), "twitter:")

\* C15: StandardMeta.CanHandle is true exactly for meta elements with a
\* non-empty name or property of which neither starts with og: or twitter:;
\* so no node is accepted by StandardMeta and also by OpenGraph or Twitter.
C15_StandardMetaDisjoint ==
    /\ (call.op = "CanHandle" /\ call.provider = StandardMetaProvider)
        => ret = PlainMeta(call.node)
    /\ CanHandle(StandardMetaProvider, call.node)
        => /\ ~CanHandle(OpenGraphProvider, call.node)
           /\ ~CanHandle(TwitterProvider, call.node)

\* C15 witness: StandardMeta.CanHandle has refused a meta node with a plain
\* name whose property starts with og:.
C15_Witness ==
    /\ call.op = "CanHandle"
    /\ call.provider = StandardMetaProvider
    /\ IsMeta(call.node)
    /\ getAttribute(call.node, S("name")) = S("description")
    /\ StartsWith(getAttribute(call.node, S("property")), "og:")
    /\ ret = FALSE

OtherCanHandleOnStylesheet ==
    /\ call.op = "CanHandle"
    /\ call.provider = OtherElementsProvider
    /\ getAttribute(call.node, S("rel")) = S("stylesheet")

\* C16 as stated: for any node, of any type or tag, whose rel attribute is
\* stylesheet, OtherElements.CanHandle returns false.
C16_StylesheetNeverHandled ==
    OtherCanHandleOnStylesheet => ret = FALSE

\* C16 as the code has it: on a node whose rel attribute is stylesheet
\* OtherElements.CanHandle returns false for every link element and for every
\* other node except title and h1 elements, which it accepts whatever their
\* attributes.
C16_StylesheetLinkNotHandled ==
    OtherCanHandleOnStylesheet =>
        ret = (call.node.Type = ElementNode /\ call.node.Data \in {"title", "h1"})

\* C16 witness: CanHandle has refused a link with rel stylesheet and an href.
C16_Witness ==
    /\ OtherCanHandleOnStylesheet
    /\ call.node.Type = ElementNode
    /\ call.node.Data = "link"
    /\ getAttribute(call.node, S("href")) = S("/x")
    /\ ret = FALSE

\* C17: OtherElements.Scrape maps a title element to key title, an h1 to key
\* firstHeading, a link with rel icon or shortcut icon to a key equal to the
\* rel and a link with rel canonical to key url, the value of a link being its
\* href; it yields nothing for a link with empty or missing href, for a link
\* with another rel, and for a title or h1 with empty text.
C17_OtherElementsScrape ==
    (/\ call.op = "Provider.Scrape"
     /\ call.provider = OtherElementsProvider
     /\ call.node.Type = ElementNode)
        => LET n == call.node
               rel == getAttribute(n, S("rel"))
               href == getAttribute(n, S("href"))
               text == getTextContent(n)
           IN  /\ (n.Data = "title" /\ text # EmptyString) => ret = Some([Key |-> S("title"), Value |-> text])
               /\ (n.Data = "h1" /\ text # EmptyString)
                    => ret = Some([Key |-> S("firstHeading"), Value |-> text])
               /\ (n.Data \in {"title", "h1"} /\ text = EmptyString) => ret = Nil
               /\ (n.Data = "link" /\ href = EmptyString) => ret = Nil
               /\ (n.Data = "link" /\ href # EmptyString /\ rel \in {S("icon"), S("shortcut icon")})
                    => ret = Some([Key |-> rel, Value |-> href])
               /\ (n.Data = "link" /\ href # EmptyString /\ rel = S("canonical"))
                    => ret = Some([Key |-> S("url"), Value |-> href])
               /\ (n.Data = "link" /\ rel \notin {S("icon"), S("shortcut icon"), S("canonical")})
                    => ret = Nil

\* C17 witness: a canonical link has been scraped to url, or a title holding
\* only blanks to nothing.
C17_Witness ==
    /\ call.op = "Provider.Scrape"
    /\ call.provider = OtherElementsProvider
    /\ \/ /\ call.node.Data = "link"
          /\ getAttribute(call.node, S("rel")) = S("canonical")
          /\ ret = Some([Key |-> S("url"), Value |-> S("/x")])
       \/ /\ call.node.Data = "title"
          /\ call.node.children = <<Text(S(" "))>>
          /\ ret = Nil

-----------------------------------------------------------------------------
(* Claims about the partitions of a Metadata.                              *)

RawAccessors == {"GetProviderData", "OpenGraph", "TwitterCard", "Meta", "Other"}

\* C18: a Metadata built by NewMetadata holds an empty partition for every
\* provider registered at construction and an empty Feeds list; and
\* GetProviderData(name), OpenGraph, TwitterCard, Meta and Other return a map
\* in every state: the stored partition when there is one, else an empty
\* map, never the nil map.
C18_PartitionsAlwaysReadable ==
    /\ call.op = "NewMetadata" =>
        /\ DOMAIN providerData = {providers[i].name : i \in 1..Len(providers)}
        /\ \A n \in DOMAIN providerData : DOMAIN providerData[n] = {}
        /\ Feeds = <<>>
    /\ call.op \in RawAccessors =>
        /\ ret # Nil
        /\ call.providerName \in DOMAIN providerData => Val(ret) = providerData[call.providerName]
        /\ call.providerName \notin DOMAIN providerData => DOMAIN Val(ret) = {}
    /\ call.op = "OpenGraph" => call.providerName = "openGraph"
    /\ call.op = "TwitterCard" => call.providerName = "twitter"
    /\ call.op = "Meta" => call.providerName = "meta"
    /\ call.op = "Other" => call.providerName = "other"

\* C18 witness: data is stored, and GetProviderData has returned an empty map
\* for a name without partition, or Other the stored partition of "other".
C18_Witness ==
    /\ DataCount(providerData) > 0
    /\ \/ /\ call.op = "GetProviderData"
          /\ call.providerName \notin DOMAIN providerData
          /\ ret = Some(EmptyMap)
       \/ /\ call.op = "Other"
          /\ "other" \in DOMAIN providerData
          /\ DOMAIN providerData["other"] # {}
          /\ ret = Some(providerData["other"])

KeysOf(pd, n) == IF n \in DOMAIN pd THEN DOMAIN pd[n] ELSE {}

\* What a step that is the call AddData(p, k, v) does to the Metadata.
AddDataStep ==
    LET p == call'.providerName
        k == call'.key
        v == call'.value
    IN  /\ DOMAIN providerData' = DOMAIN providerData \cup {p}
        /\ KeysOf(providerData', p) = KeysOf(providerData, p) \cup {k}
        /\ providerData'[p][k] = Append(ValuesOf(providerData, p, k), v)
        /\ \A j \in KeysOf(providerData, p) \ {k} : providerData'[p][j] = providerData[p][j]
        /\ \A n \in DOMAIN providerData \ {p} : providerData'[n] = providerData[n]
        /\ Feeds' = Feeds
        /\ registry' = registry
        /\ providers' = providers

\* C19: AddData(providerName, key, value) appends value at the end of the
\* list at partition[providerName][key], creating the partition when the name
\* has none, and changes nothing else: every other key, every other
\* partition and the Feeds stay as they were, so a list is the values added
\* for it in call order, duplicates included.
C19_AddDataAppendsOnly == [][call'.op = "AddData" => AddDataStep]_vars

\* C19 witness: the same value was added twice under a name that was not
\* registered at construction, and the list holds it twice.
C19_Witness ==
    /\ call.op = "AddData"
    /\ call.providerName = "custom"
    /\ "custom" \notin {providers[i].name : i \in 1..Len(providers)}
    /\ providerData["custom"][call.key] = <<call.value, call.value>>

-----------------------------------------------------------------------------
(* Two goroutines calling Scrape on one Scraper.  The Scraper keeps the    *)
(* document and the Metadata being filled in its fields doc and result,    *)
(* which every pass reads again; nothing synchronises them.  Under this    *)
(* specification there is one Metadata object per call, so providerData    *)
(* and Feeds are indexed by object, result names the object Scraper.result *)
(* points to, and call and ret are indexed by goroutine.  A pass is taken  *)
(* as one step: the interleavings of whole passes are among those the      *)
(* unsynchronised code allows.                                             *)

Goroutines == {1, 2}

OtherGoroutine(g) == 3 - g

\* The statements of Scrape in order: the two assignments, the five passes
\* and the getResult that reads Scraper.result for the return value.
ScrapeSteps == <<"doc", "result", "meta", "title", "h1", "link", "feed", "getResult">>

Done == Len(ScrapeSteps) + 1

\* A Scrape that fills the Metadata the scraper already holds, if any.
Scrape_Step_KeepResult(at, g, d, ps, s) ==
    CASE at = "doc" -> [s EXCEPT !.doc = d]
      [] at = "result" ->
            IF s.result # Nil THEN s
            ELSE [s EXCEPT !.result = Some(g),
                           !.providerData[g] = NewMetadata(ps).providerData,
                           !.Feeds[g] = NewMetadata(ps).Feeds]
      [] at = "meta" -> [s EXCEPT !.providerData[Val(s.result)] = scrapeMetaTags(@, ps, Val(s.doc))]
      [] at = "title" -> [s EXCEPT !.providerData[Val(s.result)] = scrapeTitleTag(@, ps, Val(s.doc))]
      [] at = "h1" -> [s EXCEPT !.providerData[Val(s.result)] = scrapeHeadingTags(@, ps, Val(s.doc))]
      [] at = "link" -> [s EXCEPT !.providerData[Val(s.result)] = scrapeLinkTags(@, ps, Val(s.doc))]
      [] at = "feed" -> [s EXCEPT !.Feeds[Val(s.result)] = scrapeFeedLinks(@, Val(s.doc))]
      [] at = "getResult" -> s

\* A Scrape whose Metadata under construction is one object for all callers.
Scrape_Step_OneMetadata(at, g, d, ps, s) ==
    CASE at = "doc" -> [s EXCEPT !.doc = d]
      [] at = "result" ->
            [s EXCEPT !.result = Some(1),
                      !.providerData[1] = NewMetadata(ps).providerData,
                      !.Feeds[1] = NewMetadata(ps).Feeds]
      [] at = "meta" -> [s EXCEPT !.providerData[Val(s.result)] = scrapeMetaTags(@, ps, Val(s.doc))]
      [] at = "title" -> [s EXCEPT !.providerData[Val(s.result)] = scrapeTitleTag(@, ps, Val(s.doc))]
      [] at = "h1" -> [s EXCEPT !.providerData[Val(s.result)] = scrapeHeadingTags(@, ps, Val(s.doc))]
      [] at = "link" -> [s EXCEPT !.providerData[Val(s.result)] = scrapeLinkTags(@, ps, Val(s.doc))]
      [] at = "feed" -> [s EXCEPT !.Feeds[Val(s.result)] = scrapeFeedLinks(@, Val(s.doc))]
      [] at = "getResult" -> s

\* A Scrape whose new Metadata starts with what the previous result held.
Scrape_Step_CarryOver(at, g, d, ps, s) ==
    CASE at = "doc" -> [s EXCEPT !.doc = d]
      [] at = "result" ->
            [s EXCEPT !.result = Some(g),
                      !.providerData[g] = IF s.result # Nil THEN s.providerData[Val(s.result)]
                                          ELSE NewMetadata(ps).providerData,
                      !.Feeds[g] = IF s.result # Nil THEN s.Feeds[Val(s.result)]
                                   ELSE NewMetadata(ps).Feeds]
      [] at = "meta" -> [s EXCEPT !.providerData[Val(s.result)] = scrapeMetaTags(@, ps, Val(s.doc))]
      [] at = "title" -> [s EXCEPT !.providerData[Val(s.result)] = scrapeTitleTag(@, ps, Val(s.doc))]
      [] at = "h1" -> [s EXCEPT !.providerData[Val(s.result)] = scrapeHeadingTags(@, ps, Val(s.doc))]
      [] at = "link" -> [s EXCEPT !.providerData[Val(s.result)] = scrapeLinkTags(@, ps, Val(s.doc))]
      [] at = "feed" -> [s EXCEPT !.Feeds[Val(s.result)] = scrapeFeedLinks(@, Val(s.doc))]
      [] at = "getResult" -> s

\* One statement of Scrape(d) run by goroutine g on the scraper and Metadata
\* objects s = [doc, result, providerData, Feeds]: what it leaves.  The
\* Metadata made by goroutine g is object g.
Scrape_Step(at, g, d, ps, s) ==
    CASE at = "doc" -> [s EXCEPT !.doc = d]
      [] at = "result" ->
            [s EXCEPT !.result = Some(g),
                      !.providerData[g] = NewMetadata(ps).providerData,
                      !.Feeds[g] = NewMetadata(ps).Feeds]
      [] at = "meta" -> [s EXCEPT !.providerData[Val(s.result)] = scrapeMetaTags(@, ps, Val(s.doc))]
      [] at = "title" -> [s EXCEPT !.providerData[Val(s.result)] = scrapeTitleTag(@, ps, Val(s.doc))]
      [] at = "h1" -> [s EXCEPT !.providerData[Val(s.result)] = scrapeHeadingTags(@, ps, Val(s.doc))]
      [] at = "link" -> [s EXCEPT !.providerData[Val(s.result)] = scrapeLinkTags(@, ps, Val(s.doc))]
      [] at = "feed" -> [s EXCEPT !.Feeds[Val(s.result)] = scrapeFeedLinks(@, Val(s.doc))]
      [] at = "getResult" -> s

PageA == Element("html", <<>>, <<OGTitleMeta, TitleElement, FeedLink>>)
PageB == Element("html", <<>>, <<NameTitleMeta, Heading, BareFeedLink>>)
PageC == Element("html", <<>>, <<>>)

ConcurrentPages == {PageA, PageB, PageC}

InProgress(g) == call[g].pc > 1 /\ call[g].pc < Done

\* A scraper from CreateScraper and two calls about to be made, on different
\* documents.
InitConcurrent ==
    /\ \E s \in {Val(c.scraper) : c \in CreateScraper} :
        /\ providers = s.registry.providers
        /\ doc = s.doc
        /\ result = s.result
    /\ \E d1 \in ConcurrentPages : \E d2 \in ConcurrentPages \ {d1} :
        call = [g \in Goroutines |->
                    [op |-> "Scrape", doc |-> Some(IF g = 1 THEN d1 ELSE d2), pc |-> 1,
                     overlapped |-> FALSE]]
    /\ ret = [g \in Goroutines |-> Nil]
    /\ providerData = [g \in Goroutines |-> EmptyMap]
    /\ Feeds = [g \in Goroutines |-> <<>>]
    /\ registry = TheRegistry

\* Goroutine g runs its next statement of Scrape.  A call has overlapped the
\* other once one of the two took a step while the other was under way.
GoScrape(g) ==
    /\ call[g].pc < Done
    /\ LET at == ScrapeSteps[call[g].pc]
           after == Scrape_Step(at, g, call[g].doc, providers,
                                [doc |-> doc, result |-> result,
                                 providerData |-> providerData, Feeds |-> Feeds])
       IN  /\ doc' = after.doc
           /\ result' = after.result
           /\ providerData' = after.providerData
           /\ Feeds' = after.Feeds
           /\ ret' = IF at = "getResult"
                     THEN [ret EXCEPT ![g] = [result |-> after.result, err |-> Nil]]
                     ELSE ret
    /\ call' = [h \in Goroutines |->
                    [call[h] EXCEPT !.pc = IF h = g THEN @ + 1 ELSE @,
                                    !.overlapped = @ \/ InProgress(OtherGoroutine(g))]]
    /\ UNCHANGED <<providers, registry>>

NextConcurrent == \E g \in Goroutines : GoScrape(g)

SpecConcurrent == InitConcurrent /\ [][NextConcurrent]_vars

-----------------------------------------------------------------------------
(* Claims about concurrent Scrape calls.                                   *)

Returned(g) == call[g].pc = Done

\* The Metadata goroutine g got back holds what Scrape returns for g's
\* document when it runs alone.
AsAlone(g) ==
    LET alone == Val(Scraper_Scrape(providers, call[g].doc).result)
        got == Val(ret[g].result)
    IN  /\ providerData[got] = alone.providerData
        /\ Feeds[got] = alone.Feeds

\* C20: concurrent Scrape calls on one Scraper are not safe.  A call that did
\* not overlap the other returns its own Metadata, holding what the call
\* returns when run alone, and that Metadata stays so; only calls that
\* overlapped can return something else (the witness below is such an
\* interleaving).
C20_OnlyOverlappingCallsDiffer ==
    \A g \in Goroutines :
        (Returned(g) /\ ~call[g].overlapped) =>
            /\ ret[g].result = Some(g)
            /\ AsAlone(g)

\* C20 witness: both calls have returned, on different documents, and they
\* returned the same Metadata object, which holds neither what the first nor
\* what the second call returns alone, while the other Metadata lacks data of
\* its document.
C20_Witness ==
    /\ \A g \in Goroutines : Returned(g)
    /\ call[1].doc # call[2].doc
    /\ ret[1].result = ret[2].result
    /\ ~AsAlone(1)
    /\ ~AsAlone(2)
    /\ \E g \in Goroutines :
        /\ ret[1].result # Some(g)
        /\ providerData[g] # Val(Scraper_Scrape(providers, call[g].doc).result).providerData

-----------------------------------------------------------------------------
(* Two Scraper instances over one Registry, each running Scrape in its own *)
(* goroutine.  Scraper g is used by goroutine g: doc and result are        *)
(* indexed by scraper, providerData and Feeds by Metadata object, call and *)
(* ret by goroutine.  The registry (providers) is the one thing shared;    *)
(* Scrape only reads it.  An AddProvider may run in between.               *)

\* The provider an AddProvider brings in meanwhile: it comes first and
\* handles every meta element.
LateProvider == MockProvider("mock", 0)

\* Two scrapers from NewScraper over the registry of CreateScraper, and a
\* call about to be made on each.
InitShared ==
    /\ \E s \in {Val(c.scraper) : c \in CreateScraper} :
        /\ providers = s.registry.providers
        /\ doc = [g \in Goroutines |-> s.doc]
        /\ result = [g \in Goroutines |-> s.result]
        /\ \E d1 \in ConcurrentPages : \E d2 \in ConcurrentPages :
            call = [g \in Goroutines |->
                        [op |-> "Scrape", doc |-> Some(IF g = 1 THEN d1 ELSE d2), pc |-> 1,
                         registry |-> s.registry.providers, registryChanged |-> FALSE,
                         overlapped |-> FALSE]]
    /\ ret = [g \in Goroutines |-> Nil]
    /\ providerData = [g \in Goroutines |-> EmptyMap]
    /\ Feeds = [g \in Goroutines |-> <<>>]
    /\ registry = TheRegistry

\* Goroutine g runs the next statement of Scrape on scraper g.
GoScrapeOwn(g) ==
    /\ call[g].pc < Done
    /\ LET at == ScrapeSteps[call[g].pc]
           after == Scrape_Step(at, g, call[g].doc, providers,
                                [doc |-> doc[g], result |-> result[g],
                                 providerData |-> providerData, Feeds |-> Feeds])
       IN  /\ doc' = [doc EXCEPT ![g] = after.doc]
           /\ result' = [result EXCEPT ![g] = after.result]
           /\ providerData' = after.providerData
           /\ Feeds' = after.Feeds
           /\ ret' = IF at = "getResult"
                     THEN [ret EXCEPT ![g] = [result |-> after.result, err |-> Nil]]
                     ELSE ret
    /\ call' = [h \in Goroutines |->
                    [call[h] EXCEPT !.pc = IF h = g THEN @ + 1 ELSE @,
                                    !.overlapped = @ \/ InProgress(OtherGoroutine(g))]]
    /\ UNCHANGED <<providers, registry>>

\* AddProvider on the shared registry while calls are still to return.
GoAddProvider ==
    /\ Len(providers) <= Len(defaultProviders)
    /\ \E g \in Goroutines : call[g].pc < Done
    /\ call' = [g \in Goroutines |->
                    [call[g] EXCEPT !.registryChanged = @ \/ call[g].pc < Done]]
    /\ providers' \in AddProvider(providers, LateProvider)
    /\ UNCHANGED <<providerData, registry, Feeds, doc, result, ret>>

NextShared ==
    \/ \E g \in Goroutines : GoScrapeOwn(g)
    \/ GoAddProvider

SpecShared == InitShared /\ [][NextShared]_vars

\* The Metadata goroutine g got back holds what a Scrape of g's document
\* returns alone over the registry as it was before the calls.
AsAloneBefore(g) ==
    LET alone == Val(Scraper_Scrape(call[g].registry, call[g].doc).result)
        got == Val(ret[g].result)
    IN  /\ providerData[got] = alone.providerData
        /\ Feeds[got] = alone.Feeds

\* C21: two Scraper instances over one Registry run Scrape concurrently.  A
\* call during which no AddProvider ran returns, under every interleaving,
\* its own Metadata holding what the call returns alone, and the registry's
\* provider list and order are then as before.
C21_SharedRegistryScrapesAgree ==
    \A g \in Goroutines :
        (Returned(g) /\ ~call[g].registryChanged) =>
            /\ ret[g].result = Some(g)
            /\ result[g] = Some(g)
            /\ AsAloneBefore(g)
            /\ (\A h \in Goroutines : ~call[h].registryChanged) => providers = call[g].registry

\* C21 witness: both calls have returned after overlapping each other, and
\* each holds the data of its own document.
C21_Witness ==
    /\ \A g \in Goroutines : Returned(g) /\ ~call[g].registryChanged /\ call[g].overlapped
    /\ call[1].doc = Some(PageA)
    /\ call[2].doc = Some(PageB)
    /\ S("title") \in DOMAIN providerData[1]["openGraph"]
    /\ S("title") \in DOMAIN providerData[2]["meta"]
    /\ Len(Feeds[1]) = 1
    /\ Len(Feeds[2]) = 1
    /\ Feeds[1] # Feeds[2]

-----------------------------------------------------------------------------
(* Further claims about the factory, the providers and the registry.       *)

\* C22: CreateScraperWithProviderNames accepts the names opengraph, twitter
\* and standardmeta of the README's example and returns, without error, a
\* scraper for the OpenGraph, Twitter and StandardMeta providers.
C22_ReadmeNamesAccepted ==
    (call.op = "CreateScraperWithProviderNames" /\ call.names = ReadmeNames) =>
        /\ ret.err = Nil
        /\ ret.scraper # Nil
        /\ Val(ret.scraper).registry.providers
            = <<OpenGraphProvider, TwitterProvider, StandardMetaProvider>>

\* The text nodes below a node, concatenated in document order.
DescendantText(n) ==
    LET paths == InDocumentOrder({p \in PathsOf(n) : NodeAt(n, p).Type = TextNode})
    IN  Flatten([i \in 1..Len(paths) |-> NodeAt(n, paths[i]).Data])

\* C23: for a title or h1 element with nested children, the value extracted
\* by OtherElements is the concatenation of all descendant text nodes in
\* document order with leading and trailing whitespace removed once from the
\* whole - whitespace inside, also at the boundaries of nested elements,
\* is kept - and nothing is yielded when that string is empty.
C23_TextTrimmedOnce ==
    (/\ call.op = "Provider.Scrape"
     /\ call.provider = OtherElementsProvider
     /\ call.node.Type = ElementNode
     /\ call.node.Data \in {"title", "h1"})
        => LET text == TrimSpace(DescendantText(call.node))
           IN  IF text = EmptyString THEN ret = Nil
               ELSE /\ ret # Nil
                    /\ Val(ret).Value = text

\* C24: for each built-in provider and every node, a key/value pair from
\* Scrape(node) implies CanHandle(node); Scrape on a node the provider does
\* not handle yields nothing.  (That Scrape may yield nothing for a node it
\* handles is the witness.)
C24_ScrapeImpliesCanHandle ==
    call.op = "Provider.Scrape" =>
        /\ ret # Nil => CanHandle(call.provider, call.node)
        /\ ~CanHandle(call.provider, call.node) => ret = Nil

\* C24 witness: StandardMeta handles a meta node with a name and no content,
\* and its Scrape has yielded nothing.
C24_Witness ==
    /\ call.op = "Provider.Scrape"
    /\ call.provider = StandardMetaProvider
    /\ CanHandle(call.provider, call.node)
    /\ getAttribute(call.node, S("name")) = S("description")
    /\ ret = Nil

\* C25: RemoveProvider(name) removes only the first provider, in registry
\* order, whose name is name; every other provider, later ones of the same
\* name included, stays in its relative order; without a provider of that
\* name the registry is unchanged.
C25_RemovesFirstMatchOnly ==
    call.op = "RemoveProvider" =>
        LET b == call.before
            matches == {i \in 1..Len(b) : b[i].name = call.name}
        IN  IF matches = {} THEN providers = b
            ELSE providers = [j \in 1..(Len(b) - 1) |-> IF j < Min(matches) THEN b[j] ELSE b[j + 1]]

\* C25 witness: two providers of different priority carried the name; the
\* first was removed and the second is still registered, behind a provider
\* that stood before both.
C25_Witness ==
    /\ call.op = "RemoveProvider"
    /\ call.name = "twitter"
    /\ call.before = <<OpenGraphProvider, TwitterProvider, MockProvider("twitter", 3)>>
    /\ providers = <<OpenGraphProvider, MockProvider("twitter", 3)>>

\* The call of goroutine g had returned before the other call began, and the
\* other call has begun.
FirstOfTwo(g) ==
    /\ Returned(g)
    /\ ~call[g].overlapped
    /\ call[OtherGoroutine(g)].pc > 1
    /\ ret[g].result # Nil
    /\ result # ret[g].result

\* C26: each successful Scrape returns a fresh Metadata.  When one Scraper
\* scrapes a second document after the first call has returned, the first
\* result - provider data and Feeds - stays what it was during and after the
\* second call, the second call returns another object, and that holds what
\* the second document gives alone: nothing of the first document.
C26_FreshMetadataPerScrape ==
    \A g \in Goroutines :
        FirstOfTwo(g) =>
            /\ AsAlone(g)
            /\ Returned(OtherGoroutine(g)) =>
                /\ ret[OtherGoroutine(g)].result # ret[g].result
                /\ AsAlone(OtherGoroutine(g))

\* C26 witness: page A was scraped, then page B by the same scraper; the
\* first result still holds A's og:title and feed, the second has neither.
C26_Witness ==
    /\ FirstOfTwo(1)
    /\ Returned(2)
    /\ call[1].doc = Some(PageA)
    /\ call[2].doc = Some(PageB)
    /\ providerData[1]["openGraph"][S("title")] = <<S("Hello")>>
    /\ Len(Feeds[1]) = 1
    /\ DOMAIN providerData[2]["openGraph"] = {}
    /\ Feeds[2] # Feeds[1]

-----------------------------------------------------------------------------
(* Claims about the result of a Scrape with the four default providers.     *)

DefaultsScraped ==
    /\ result # Nil
    /\ providers = defaultProviders

Contains(root, n) == \E p \in PathsOf(root) : NodeAt(root, p) = n

\* C27: in the Metadata returned by Scrape with the four default providers
\* every value stored in every partition under every key is a non-empty
\* string.
C27_ValuesNonEmpty ==
    DefaultsScraped =>
        \A nk \in HeldKeys(providerData) :
            \A i \in 1..Len(providerData[nk[1]][nk[2]]) :
                providerData[nk[1]][nk[2]][i] # EmptyString

\* C27 witness: a scraped page with a meta element of empty content, an icon
\* link of empty href and an og:title meta element; only the last is stored.
C27_Witness ==
    /\ DefaultsScraped
    /\ Contains(Val(doc), EmptyContentMeta)
    /\ Contains(Val(doc), EmptyHrefIcon)
    /\ Contains(Val(doc), OGTitleMeta)
    /\ HeldKeys(providerData) = {<<"openGraph", S("title")>>}
    /\ providerData["openGraph"][S("title")] = <<S("Hello")>>

\* C28: in the Metadata returned by Scrape with the four default providers
\* every key stored in every partition is a non-empty string, no key of the
\* openGraph partition starts with og: and no key of the twitter partition
\* starts with twitter:.
C28_KeysNonEmptyUnprefixed ==
    DefaultsScraped =>
        /\ \A nk \in HeldKeys(providerData) : nk[2] # EmptyString
        /\ \A nk \in HeldKeys(providerData) :
            /\ nk[1] = "openGraph" => ~StartsWith(nk[2], OGPrefix)
            /\ nk[1] = "twitter" => ~StartsWith(nk[2], TwitterPrefix)

\* The elements the four provider passes visit.
PassElements(root) ==
    {p \in PathsOf(root) : \E i \in 1..Len(PassOrder) : InPass(PassOrder[i], NodeAt(root, p))}

AlternateLinks(root) ==
    {p \in PathsOf(root) :
        /\ NodeAt(root, p).Type = ElementNode
        /\ NodeAt(root, p).Data = "link"
        /\ getAttribute(NodeAt(root, p), S("rel")) = S("alternate")}

StoredValues(pd) ==
    UNION {{<<nk[1], nk[2], i>> : i \in 1..Len(pd[nk[1]][nk[2]])} : nk \in HeldKeys(pd)}

\* C29: after a Scrape with the four default providers the number of values
\* stored across all partitions is at most the number of meta, title, h1 and
\* rel-carrying link elements of the document; no default provider extracts
\* anything from a link with rel=alternate, and there are at most as many
\* Feeds as such links.
C29_OneEntryPerElement ==
    DefaultsScraped =>
        /\ Cardinality(StoredValues(providerData)) <= Cardinality(PassElements(Val(doc)))
        /\ \A p \in AlternateLinks(Val(doc)) :
               ScrapeFromElement(providers, NodeAt(Val(doc), p)) = Nil
        /\ Len(Feeds) <= Cardinality(AlternateLinks(Val(doc)))

\* C29 witness: a scraped page with a meta element two providers can handle,
\* an og:title meta element and a feed link: two values and one Feed.
C29_Witness ==
    /\ DefaultsScraped
    /\ Contains(Val(doc), BothPrefixesMeta)
    /\ Contains(Val(doc), OGTitleMeta)
    /\ Contains(Val(doc), FeedLink)
    /\ Cardinality(StoredValues(providerData)) = 2
    /\ Len(Feeds) = 1

-----------------------------------------------------------------------------
(* Claims about the derived accessors and the registry.                     *)

AccessorOps == {"Title", "Description", "Image", "URL", "SiteName", "Favicon"}

Accessor(op, reg, ps, pd) ==
    CASE op = "Title" -> Title(reg, ps, pd)
      [] op = "Description" -> Description(reg, ps, pd)
      [] op = "Image" -> Image(reg, ps, pd)
      [] op = "URL" -> URL(reg, ps, pd)
      [] op = "SiteName" -> SiteName(reg, ps, pd)
      [] op = "Favicon" -> Favicon(reg, ps, pd)

RegisteredNames == {providers[i].name : i \in 1..Len(providers)}

\* The partitions of the providers that are in the registry now.
RegisteredData == [n \in DOMAIN providerData \cap RegisteredNames |-> providerData[n]]

\* The answer of an accessor when nothing is found.
Nothing(op) == IF op = "Favicon" THEN DefaultFavicon ELSE Nil

\* C30: the derived accessors answer from the partitions of the providers in
\* the registry at the moment of the call and from nothing else: each gives
\* what it would give if the other partitions were absent, and gives nothing
\* when no registered provider's partition holds a value; GetProviderData
\* returns the stored partition of every name, registered or not.
C30_AccessorsReadRegisteredOnly ==
    /\ \A op \in AccessorOps :
        /\ Accessor(op, registry, providers, providerData)
             = Accessor(op, registry, providers, RegisteredData)
        /\ DataCount(RegisteredData) = 0
             => Accessor(op, registry, providers, providerData) = Nothing(op)
    /\ call.op \in AccessorOps
         => ret = Accessor(call.op, registry, providers, RegisteredData)
    /\ \A n \in DOMAIN providerData : GetProviderData(providerData, n) = providerData[n]
    /\ (call.op = "GetProviderData" /\ call.providerName \in DOMAIN providerData)
         => ret = Some(providerData[call.providerName])

\* C30 witness: a title is stored under openGraph and under custom, the
\* OpenGraph provider has been removed from the registry, and Title() has
\* returned nothing.
C30_Witness ==
    /\ registry = TheRegistry
    /\ providers = <<>>
    /\ ValuesOf(providerData, "openGraph", S("title")) = <<A>>
    /\ ValuesOf(providerData, "custom", S("title")) = <<B>>
    /\ call.op = "Title"
    /\ ret = Nil

=============================================================================
